---- MODULE Spec2Model ----
(***************************************************************************)
(* Model of the Thunderbird TbSync MCP server extension                    *)
(* (src/extension/mcp_server/api.js): the workflow table, the calendar job *)
(* table, the idempotency cache and the asynchronous workflows that run on *)
(* them.                                                                   *)
(*                                                                         *)
(* Strings are sequences of tokens (a token is a character or an atomic    *)
(* run of characters such as "2026" or "Dentist"); the empty sequence      *)
(* stands for both "" and undefined, which the code treats alike (falsy).  *)
(***************************************************************************)
EXTENDS Integers, Sequences, FiniteSets, TLC

VARIABLES
    now,            \* Date.now(), in milliseconds
    workflowSeq,    \* _workflowSeq
    workflowJobs,   \* _workflowJobs: workflow id -> record
    idempotency,    \* _idempotency: key -> [ts, created]
    calendarJobSeq, \* _calendarJobSeq
    calendarJobs,   \* _calendarJobs: job id -> record
    pc,             \* position of each workflow's background continuation
    locals,         \* the continuation's local values (pre, created, post)
    effects,        \* per workflow: the external calls it has issued, in order
    stepTrace,      \* per workflow: every value assigned to job.step, in order
    response,       \* the response returned to the latest request
    store,          \* ids of the items present in the calendar store
    bulk,           \* state of the running tbsyncDeleteEasEventsByTitleRange call
    server,         \* _serverStarted, _serverStarting, _serverPort and the HttpServer
    exchange,       \* the HTTP request being handled and its response
    bridge          \* mcp-bridge.cjs: stdin, buffer, requests in flight, stdout

vars == <<now, workflowSeq, workflowJobs, idempotency,
          calendarJobSeq, calendarJobs, pc, locals, effects, stepTrace,
          response, store, bulk, server, exchange, bridge>>

----------------------------------------------------------------------------
(* Bounds of the model *)

MaxWorkflows == 2
MaxTicks == 3
MaxAddJobs == 2
\* calls of start() and HTTP requests
MaxStartCalls == 3
MaxRequests == 3
\* calls of the tbsyncSyncAccountByUser tool
MaxSyncCalls == 4
\* tokens the bridge reads from stdin, tokens of one chunk
MaxInput == 4
MaxChunk == 2
\* bulk workflows beside the one-call tools
MaxQueryWorkflows == 1

----------------------------------------------------------------------------
(* String helpers (JavaScript String methods on token sequences) *)

RECURSIVE TrimLeft(_)
TrimLeft(s) == IF s # <<>> /\ Head(s) = " " THEN TrimLeft(Tail(s)) ELSE s

RECURSIVE TrimRight(_)
TrimRight(s) ==
    IF s # <<>> /\ s[Len(s)] = " " THEN TrimRight(SubSeq(s, 1, Len(s) - 1)) ELSE s

Trim(s) == TrimRight(TrimLeft(s))

LowerTok(t) ==
    CASE t = "A" -> "a"
      [] t = "B" -> "b"
      [] t = "U1" -> "u1"
      [] OTHER -> t

ToLowerCase(s) == [i \in 1..Len(s) |-> LowerTok(s[i])]

EndsWith(s, suffix) ==
    /\ Len(suffix) <= Len(s)
    /\ SubSeq(s, Len(s) - Len(suffix) + 1, Len(s)) = suffix

Includes(h, n) ==
    \E i \in 0..(Len(h) - Len(n)) : SubSeq(h, i + 1, i + Len(n)) = n

RemoveAll(s, drop) == SelectSeq(s, LAMBDA t : t \notin drop)

\* s.split(sep): the runs of tokens between separators
RECURSIVE Split(_, _)
Split(s, sep) ==
    IF \A i \in 1..Len(s) : s[i] # sep THEN <<s>>
    ELSE LET k == CHOOSE i \in 1..Len(s) :
                      s[i] = sep /\ \A j \in 1..(i - 1) : s[j] # sep
         IN <<SubSeq(s, 1, k - 1)>> \o Split(SubSeq(s, k + 1, Len(s)), sep)

Digits4 == {"2026"}
Digits2 == {"00", "01", "02", "03", "04", "05", "06", "07"}

\* parseInt(x, 10) of a run of tokens: the leading number, NaN (0 here: both
\* are falsy) when the run does not start with digits
ParseInt(run) ==
    IF run = <<>> THEN 0
    ELSE CASE Head(run) = "2026" -> 2026
           [] Head(run) = "00" -> 0
           [] Head(run) = "01" -> 1
           [] Head(run) = "02" -> 2
           [] Head(run) = "03" -> 3
           [] Head(run) = "04" -> 4
           [] Head(run) = "05" -> 5
           [] Head(run) = "06" -> 6
           [] Head(run) = "07" -> 7
           [] OTHER -> 0

----------------------------------------------------------------------------
(* The environment: calendars and TbSync accounts *)

\* cal.manager.getCalendars()
Calendars ==
    << [id |-> <<"c1">>, name |-> <<"Work">>, readOnly |-> FALSE],
       [id |-> <<"c2">>, name |-> <<"Holidays">>, readOnly |-> TRUE] >>

\* TbSyncModule.db.getAccounts(): IDs and data[id].user
AccountIDs == <<"acc1", "acc2", "acc3">>
AccountUser(id) ==
    CASE id = "acc1" -> <<" ", "U1">>
      [] id = "acc2" -> <<"u2">>
      [] id = "acc3" -> <<"u2">>

NoCalendar == 0

\* calendars.find((c) => c.id === calendarId) || null: the index of the first
\* match, NoCalendar if none
FindById(calendarId) ==
    IF \E i \in 1..Len(Calendars) : Calendars[i].id = calendarId
    THEN CHOOSE i \in 1..Len(Calendars) :
             /\ Calendars[i].id = calendarId
             /\ \A j \in 1..(i - 1) : Calendars[j].id # calendarId
    ELSE NoCalendar

\* calendars.find((c) => c.name === calendarName) || null
FindByName(calendarName) ==
    IF \E i \in 1..Len(Calendars) : Calendars[i].name = calendarName
    THEN CHOOSE i \in 1..Len(Calendars) :
             /\ Calendars[i].name = calendarName
             /\ \A j \in 1..(i - 1) : Calendars[j].name # calendarName
    ELSE NoCalendar

resolveCalendar(args) ==
    IF args.calendarId # <<>> THEN FindById(args.calendarId)
    ELSE IF args.calendarName # <<>> THEN FindByName(args.calendarName)
         ELSE NoCalendar

----------------------------------------------------------------------------
(* Date and time parsing *)

Null == <<>>

parseDateYMD(dateStr) ==
    LET parts == Split(dateStr, "-")
        num(i) == IF i <= Len(parts) THEN ParseInt(parts[i]) ELSE 0
    IN IF num(1) = 0 \/ num(2) = 0 \/ num(3) = 0 THEN Null
       ELSE <<num(1), num(2), num(3)>>

parseDateTimeLocal(dtStr) ==
    LET s == Trim(dtStr)
    IN IF /\ Len(s) = 9
          /\ s[1] \in Digits4 /\ s[2] = "-" /\ s[3] \in Digits2 /\ s[4] = "-"
          /\ s[5] \in Digits2 /\ s[6] \in {"T", " "}
          /\ s[7] \in Digits2 /\ s[8] = ":" /\ s[9] \in Digits2
       THEN <<ParseInt(<<s[1]>>), ParseInt(<<s[3]>>), ParseInt(<<s[5]>>),
              ParseInt(<<s[7]>>), ParseInt(<<s[9]>>)>>
       ELSE Null

\* A calIDateTime as minutes since the start of its year (order preserving)
DateTimeValue(mo, d, hh, mm) == (((mo - 1) * 31 + (d - 1)) * 24 + hh) * 60 + mm

makeAllDayRange(dateStr) ==
    LET ymd == parseDateYMD(dateStr)
    IN IF ymd = Null THEN [kind |-> "null", start |-> 0, end |-> 0]
       ELSE [kind |-> "range",
             start |-> DateTimeValue(ymd[2], ymd[3], 0, 0),
             end |-> DateTimeValue(ymd[2], ymd[3] + 1, 0, 0)]

makeTimedRange(startStr, endStr) ==
    LET s == parseDateTimeLocal(startStr)
        e == parseDateTimeLocal(endStr)
    IN IF s = Null \/ e = Null THEN [kind |-> "null", start |-> 0, end |-> 0]
       ELSE LET start == DateTimeValue(s[2], s[3], s[4], s[5])
                end == DateTimeValue(e[2], e[3], e[4], e[5])
            IN IF end <= start
               THEN [kind |-> "error", start |-> start, end |-> end]
               ELSE [kind |-> "range", start |-> start, end |-> end]

----------------------------------------------------------------------------
(* Tags and idempotency keys *)

shortTagForEvent(args) ==
    IF args.allDay = "true" /\ args.date # <<>>
    THEN <<"mcp:">> \o RemoveAll(args.date, {"-"})
    ELSE IF args.allDay # "true" /\ args.start # <<>> /\ args.end # <<>>
         THEN LET s == RemoveAll(args.start, {"-", ":", "T", " "})
                  e == RemoveAll(args.end, {"-", ":", "T", " "})
              IN <<"mcp:">> \o SubSeq(s, 1, 3) \o <<"-">> \o SubSeq(s, 4, 5)
                     \o <<"-">> \o SubSeq(e, 4, 5)
         ELSE <<"mcp">>

withTagAtEnd(title, tag) ==
    LET base == Trim(title)
        t == Trim(tag)
    IN IF t = <<>> THEN base
       ELSE IF EndsWith(base, <<"(">> \o t \o <<")">>) THEN base
            ELSE base \o <<" ", "(">> \o t \o <<")">>

TagOf(args) ==
    IF args.mcpTag # <<>> THEN Trim(args.mcpTag) ELSE shortTagForEvent(args)

\* a key that leaves the title out
idempotencyKeyNoTitle(args) ==
    LET calKey == IF args.calendarId # <<>> THEN args.calendarId
                  ELSE args.calendarName
    IN IF args.allDay = "true"
       THEN calKey \o <<"|">> \o args.date \o <<"|">> \o TagOf(args)
       ELSE calKey \o <<"|">> \o args.start \o <<"-">> \o args.end \o <<"|">> \o TagOf(args)

idempotencyKey(args) ==
    LET calKey == IF args.calendarId # <<>> THEN args.calendarId
                  ELSE args.calendarName
        tag == TagOf(args)
    IN IF args.allDay = "true"
       THEN calKey \o <<"|">> \o args.date \o <<"|">> \o tag \o <<"|">> \o args.title
       ELSE calKey \o <<"|">> \o args.start \o <<"-">> \o args.end \o <<"|">> \o tag

\* the event createCalendarEvent builds: ev.title and the X-MCP-TAG property
NewEvent(args) ==
    [title |-> withTagAtEnd(args.title, TagOf(args)), tag |-> TagOf(args)]

ArgsWithTag(args) ==
    [args EXCEPT !.mcpTag = TagOf(args), !.title = withTagAtEnd(args.title, TagOf(args))]

IDEMPOTENCY_TTL_MS == 6 * 60 * 60 * 1000

\* The clock advances in steps of half the TTL
TickMs == IDEMPOTENCY_TTL_MS \div 2

\* an entry that expires as soon as its age reaches the TTL
ExpiredAtTtl(entry, t) == entry.ts = 0 \/ t - entry.ts >= IDEMPOTENCY_TTL_MS

\* !v || !v.ts || now - v.ts > IDEMPOTENCY_TTL_MS
Expired(entry, t) == entry.ts = 0 \/ t - entry.ts > IDEMPOTENCY_TTL_MS

\* The cache after cleanupIdempotency() at time t
cleanupIdempotency(idem, t) ==
    [k \in {x \in DOMAIN idem : ~Expired(idem[x], t)} |-> idem[k]]

MapSet(m, k, v) == [x \in DOMAIN m \cup {k} |-> IF x = k THEN v ELSE m[x]]

----------------------------------------------------------------------------
(* Records *)

NullResult == [kind |-> "null"]
NoSync == [kind |-> "unset", error |-> "", accountID |-> ""]
NoCreated == [kind |-> "unset", error |-> "", pending |-> FALSE, jobId |-> <<>>]
NoResponse ==
    [kind |-> "none", error |-> "", workflowJobId |-> <<>>, idempotencyKey |-> <<>>,
     created |-> [pending |-> FALSE, workflowJobId |-> <<>>, result |-> NullResult]]

newWorkflowJobId(seq) == <<"wfjob", seq + 1>>
\* a job id taken from the workflow id space
newCalendarJobIdAsWorkflow(seq) == <<"wfjob", seq + 1>>

newCalendarJobId(seq) == <<"caljob", seq + 1>>

\* a lookup that syncs the first of several matching accounts
tbsyncSyncAccountByUserFirstMatch(userEmail, active) ==
    IF ~active THEN [kind |-> "throw", error |-> "TbSync is not installed/enabled", accountID |-> ""]
    ELSE LET needle == Trim(ToLowerCase(userEmail))
             matches == SelectSeq(AccountIDs,
                            LAMBDA id : Trim(ToLowerCase(AccountUser(id))) = needle)
         IN IF Len(matches) = 0
            THEN [kind |-> "error", error |-> "No TbSync account found", accountID |-> ""]
            ELSE [kind |-> "triggered", error |-> "", accountID |-> matches[1]]

\* TbSyncModule.core.syncAccount is called exactly when the result is "triggered"
tbsyncSyncAccountByUser(userEmail, active) ==
    IF ~active THEN [kind |-> "throw", error |-> "TbSync is not installed/enabled", accountID |-> ""]
    ELSE LET needle == Trim(ToLowerCase(userEmail))
             matches == SelectSeq(AccountIDs,
                            LAMBDA id : Trim(ToLowerCase(AccountUser(id))) = needle)
         IN IF Len(matches) = 0
            THEN [kind |-> "error", error |-> "No TbSync account found", accountID |-> ""]
            ELSE IF Len(matches) > 1
                 THEN [kind |-> "error", error |-> "Multiple TbSync accounts found", accountID |-> ""]
                 ELSE [kind |-> "triggered", error |-> "", accountID |-> matches[1]]

\* The error value createCalendarEvent returns before it builds the event
\* ("" when the title, allDay and calendar checks pass)
createEarlyError(args) ==
    IF args.title = <<>> THEN "Missing required field: title"
    ELSE IF args.allDay \notin {"true", "false"} THEN "Missing required field: allDay (boolean)"
    ELSE IF resolveCalendar(args) = NoCalendar THEN "Calendar not found"
    ELSE IF Calendars[resolveCalendar(args)].readOnly THEN "Calendar is read-only"
    ELSE ""

\* The error value createCalendarEvent returns for the date or time range
\* ("" when the range is valid)
createRangeError(args) ==
    IF args.allDay = "true"
    THEN IF args.date = <<>> THEN "Missing required field for all-day events: date"
         ELSE IF makeAllDayRange(args.date).kind = "null" THEN "Invalid date format"
         ELSE ""
    ELSE IF args.start = <<>> \/ args.end = <<>>
         THEN "Missing required fields for timed events: start, end"
         ELSE IF makeTimedRange(args.start, args.end).kind = "null"
              THEN "Invalid datetime format"
              ELSE IF makeTimedRange(args.start, args.end).kind = "error"
                   THEN "end must be after start"
                   ELSE ""

----------------------------------------------------------------------------
(* Requests *)

D0204 == <<"2026", "-", "02", "-", "04">>
T0600 == D0204 \o <<"T", "06", ":", "00">>
T0700 == D0204 \o <<"T", "07", ":", "00">>

NoArgs ==
    [tbsyncUser |-> <<>>, calendarId |-> <<>>, calendarName |-> <<>>, title |-> <<>>,
     allDay |-> "undefined", date |-> <<>>, start |-> <<>>, end |-> <<>>, mcpTag |-> <<>>]

\* an all-day event for a user with exactly one account
ReqDentist ==
    [NoArgs EXCEPT !.tbsyncUser = <<"u1">>, !.calendarId = <<"c1">>,
                   !.title = <<"Dentist">>, !.allDay = "true", !.date = D0204]
\* a timed event for a user with no account
ReqNoAccount ==
    [NoArgs EXCEPT !.tbsyncUser = <<"u0">>, !.calendarName = <<"Work">>,
                   !.title = <<"Standup">>, !.allDay = "false",
                   !.start = T0600, !.end = T0700]
\* a malformed date
ReqBadDate == [ReqDentist EXCEPT !.date = <<"tomorrow">>]
\* no user
ReqNoUser == [ReqDentist EXCEPT !.tbsyncUser = <<>>]

Requests == {ReqDentist, ReqNoAccount, ReqBadDate, ReqNoUser}

\* requests that differ from ReqDentist in the title, in the way the calendar
\* is named, or in the tag
ReqCleaning == [ReqDentist EXCEPT !.title = <<"Cleaning">>]
\* the title as an earlier answer returned it, with the tag already placed
ReqDentistTagged ==
    [ReqDentist EXCEPT !.title = <<"Dentist", " ", "(", "mcp:", "2026", "02", "04", ")">>]
ReqDentistByName == [ReqDentist EXCEPT !.calendarId = <<>>, !.calendarName = <<"Work">>]
ReqDentistT1 == [ReqDentist EXCEPT !.mcpTag = <<"t1">>]
ReqCleaningT1 == [ReqCleaning EXCEPT !.mcpTag = <<"t1">>]
\* a timed event for user u1, by calendar id and by calendar name
ReqStandup ==
    [NoArgs EXCEPT !.tbsyncUser = <<"u1">>, !.calendarId = <<"c1">>,
                   !.title = <<"Standup">>, !.allDay = "false",
                   !.start = T0600, !.end = T0700]
ReqStandupByName == [ReqStandup EXCEPT !.calendarId = <<>>, !.calendarName = <<"Work">>]

\* the dentist with a tag of the caller, and with a tag that is one blank
ReqDentistOwnTag == [ReqDentist EXCEPT !.mcpTag = <<"t1">>]
ReqDentistBlankTag == [ReqDentist EXCEPT !.mcpTag = <<" ">>]

TagRequests == {ReqDentist, ReqDentistTagged, ReqDentistOwnTag, ReqDentistBlankTag}

KeyRequests ==
    {ReqDentist, ReqCleaning, ReqDentistTagged, ReqDentistByName, ReqDentistT1,
     ReqCleaningT1, ReqStandup, ReqStandupByName}

----------------------------------------------------------------------------
(* syncAndCreateCalendarEvent: the request handler and its background steps *)

\* a lookup that never finds the entry
SeenNever(idem, key) == FALSE

\* const seen = _idempotency.get(key); if (seen) ...
Seen(idem, key) == key \in DOMAIN idem

\* the entry stored when a workflow is registered
PendingEntry(id, t) ==
    [ts |-> t, created |-> [pending |-> TRUE, workflowJobId |-> id, result |-> NullResult]]

\* the entry stored when a workflow is done
FinalEntry(result, t) ==
    [ts |-> t, created |-> [pending |-> FALSE, workflowJobId |-> <<>>, result |-> result]]

\* the values assigned to job.step, in the order of the code
StepStart == "start"
StepPreSync == "preSync"
StepCreateSkipped == "postSync"
StepCreate == "create"
StepPostSync == "postSync"
StepDone == "done"
StepError == "error"

\* the catch block of a workflow's background function
Fail(w, msg) ==
    /\ workflowJobs' = [workflowJobs EXCEPT ![w].status = "error",
                                            ![w].step = StepError,
                                            ![w].error = msg]
    /\ stepTrace' = [stepTrace EXCEPT ![w] = Append(@, StepError)]
    /\ pc' = [pc EXCEPT ![w] = "end"]

syncAndCreateCalendarEvent(args) ==
    /\ UNCHANGED <<server, exchange, bridge, now, calendarJobSeq, calendarJobs, store, bulk>>
    /\ IF args.tbsyncUser = <<>>
       THEN /\ response' = [NoResponse EXCEPT !.kind = "error",
                                !.error = "Missing required field: tbsyncUser (email)"]
            /\ UNCHANGED <<workflowSeq, workflowJobs, idempotency, pc, locals,
                           effects, stepTrace>>
       ELSE LET idem == cleanupIdempotency(idempotency, now)
                argsWithTag == ArgsWithTag(args)
                key == idempotencyKey(argsWithTag)
                wfJobId == newWorkflowJobId(workflowSeq)
            IN IF Seen(idem, key)
               THEN /\ response' = [NoResponse EXCEPT !.kind = "alreadyCreated",
                                        !.idempotencyKey = key,
                                        !.created = idem[key].created]
                    /\ idempotency' = idem
                    /\ UNCHANGED <<workflowSeq, workflowJobs, pc, locals, effects,
                                   stepTrace>>
               ELSE /\ workflowSeq < MaxWorkflows
                    /\ workflowSeq' = workflowSeq + 1
                    /\ workflowJobs' = Append(workflowJobs,
                           [jobId |-> wfJobId, status |-> "running",
                            step |-> StepPreSync,
                            meta |-> [mode |-> "create", idempotencyKey |-> key,
                                      tbsyncUser |-> args.tbsyncUser],
                            result |-> NullResult, error |-> ""])
                    /\ idempotency' = MapSet(idem, key, PendingEntry(wfJobId, now))
                    /\ pc' = Append(pc, "preSync")
                    /\ locals' = Append(locals,
                           [args |-> argsWithTag, pre |-> NoSync, created |-> NoCreated,
                            post |-> NoSync, request |-> args])
                    /\ effects' = Append(effects, <<>>)
                    /\ stepTrace' = Append(stepTrace, <<StepStart, StepPreSync>>)
                    /\ response' = [NoResponse EXCEPT !.kind = "pending",
                                        !.workflowJobId = wfJobId,
                                        !.idempotencyKey = key]

IsCreateWf(w) == workflowJobs[w].meta.mode = "create"

\* const pre = await tbsyncSyncAccountByUser(tbsyncUser); job.step = "create"
PreSyncReturns(w, active) ==
    /\ IsCreateWf(w) /\ pc[w] = "preSync"
    /\ LET pre == tbsyncSyncAccountByUser(workflowJobs[w].meta.tbsyncUser, active)
       IN IF pre.kind = "throw"
          THEN /\ Fail(w, pre.error)
               /\ UNCHANGED <<locals, effects>>
          ELSE /\ locals' = [locals EXCEPT ![w].pre = pre]
               /\ effects' = [effects EXCEPT ![w] =
                                 IF pre.kind = "triggered" THEN Append(@, "sync") ELSE @]
               /\ workflowJobs' = [workflowJobs EXCEPT ![w].step = StepCreate]
               /\ stepTrace' = [stepTrace EXCEPT ![w] = Append(@, StepCreate)]
               /\ pc' = [pc EXCEPT ![w] = "create"]
    /\ UNCHANGED <<server, exchange, bridge, now, workflowSeq, idempotency, calendarJobSeq,
                   calendarJobs, response, store, bulk>>

\* await sleepMs(1500); const created = await createCalendarEvent(argsWithTag);
\* job.step = "postSync".  createCalendarEvent has no suspension point of its
\* own; building the event (createInstance, setProperty) and target.addItem
\* are XPCOM calls that can throw.
CreateReturns(w, buildThrows, addThrows) ==
    /\ IsCreateWf(w) /\ pc[w] = "create"
    /\ LET args == locals[w].args
           early == createEarlyError(args)
           range == createRangeError(args)
           jobId == newCalendarJobId(calendarJobSeq)
           advance(created) ==
               /\ locals' = [locals EXCEPT ![w].created = created]
               /\ workflowJobs' = [workflowJobs EXCEPT ![w].step = StepPostSync]
               /\ stepTrace' = [stepTrace EXCEPT ![w] = Append(@, StepPostSync)]
               /\ pc' = [pc EXCEPT ![w] = "postSync"]
       IN IF early # ""
          THEN /\ ~buildThrows /\ ~addThrows
               /\ advance([NoCreated EXCEPT !.kind = "error", !.error = early])
               /\ UNCHANGED <<calendarJobSeq, calendarJobs, effects>>
          ELSE IF buildThrows
          THEN /\ ~addThrows
               /\ Fail(w, "createCalendarEvent threw")
               /\ UNCHANGED <<calendarJobSeq, calendarJobs, effects, locals>>
          ELSE IF range # ""
          THEN /\ ~addThrows
               /\ advance([NoCreated EXCEPT !.kind = "error", !.error = range])
               /\ UNCHANGED <<calendarJobSeq, calendarJobs, effects>>
          ELSE \* startAddItemJob
               /\ calendarJobSeq' = calendarJobSeq + 1
               /\ calendarJobs' = Append(calendarJobs,
                      [jobId |-> jobId, kind |-> "addItem",
                       status |-> IF addThrows THEN "error" ELSE "pending",
                       error |-> IF addThrows THEN "addItem threw" ELSE "",
                       itemId |-> <<>>, owner |-> w, events |-> <<>>,
                       item |-> NewEvent(args)])
               /\ effects' = [effects EXCEPT ![w] = Append(@, "addItem")]
               /\ advance([kind |-> "success", error |-> "",
                           pending |-> ~addThrows, jobId |-> jobId])
    /\ UNCHANGED <<server, exchange, bridge, now, workflowSeq, idempotency, response,
                   store, bulk>>

\* await sleepMs(1500); const post = await tbsyncSyncAccountByUser(tbsyncUser)
PostSyncReturns(w, active) ==
    /\ IsCreateWf(w) /\ pc[w] = "postSync"
    /\ LET post == tbsyncSyncAccountByUser(workflowJobs[w].meta.tbsyncUser, active)
       IN IF post.kind = "throw"
          THEN /\ Fail(w, post.error)
               /\ UNCHANGED <<locals, effects>>
          ELSE /\ locals' = [locals EXCEPT ![w].post = post]
               /\ effects' = [effects EXCEPT ![w] =
                                 IF post.kind = "triggered" THEN Append(@, "sync") ELSE @]
               /\ pc' = [pc EXCEPT ![w] = "postSync2"]
               /\ UNCHANGED <<workflowJobs, stepTrace>>
    /\ UNCHANGED <<server, exchange, bridge, now, workflowSeq, idempotency, calendarJobSeq,
                   calendarJobs, response, store, bulk>>

\* a last post-sync that waits until the add job of the workflow has completed
PostSync2ReturnsAwaitingJob(w, active) ==
    /\ IsCreateWf(w) /\ pc[w] = "postSync2"
    /\ \A j \in 1..calendarJobSeq :
          calendarJobs[j].owner = w => calendarJobs[j].status # "pending"
    /\ LET post2 == tbsyncSyncAccountByUser(workflowJobs[w].meta.tbsyncUser, active)
           result == [kind |-> "created", preSync |-> locals[w].pre,
                      created |-> locals[w].created, postSync |-> locals[w].post,
                      postSync2 |-> post2]
       IN IF post2.kind = "throw"
          THEN /\ Fail(w, post2.error)
               /\ UNCHANGED <<effects, idempotency>>
          ELSE /\ effects' = [effects EXCEPT ![w] =
                                 IF post2.kind = "triggered" THEN Append(@, "sync") ELSE @]
               /\ workflowJobs' = [workflowJobs EXCEPT ![w].status = "done",
                                                       ![w].step = StepDone,
                                                       ![w].result = result]
               /\ stepTrace' = [stepTrace EXCEPT ![w] = Append(@, StepDone)]
               /\ idempotency' = MapSet(idempotency, workflowJobs[w].meta.idempotencyKey,
                                        FinalEntry(result, now))
               /\ pc' = [pc EXCEPT ![w] = "end"]
    /\ UNCHANGED <<server, exchange, bridge, now, workflowSeq, calendarJobSeq, calendarJobs,
                   locals, response, store, bulk>>

\* await sleepMs(1500); const post2 = await tbsyncSyncAccountByUser(tbsyncUser);
\* job.status = "done"; ...; _idempotency.set(key, ...)
PostSync2Returns(w, active) ==
    /\ IsCreateWf(w) /\ pc[w] = "postSync2"
    /\ LET post2 == tbsyncSyncAccountByUser(workflowJobs[w].meta.tbsyncUser, active)
           result == [kind |-> "created", preSync |-> locals[w].pre,
                      created |-> locals[w].created, postSync |-> locals[w].post,
                      postSync2 |-> post2]
       IN IF post2.kind = "throw"
          THEN /\ Fail(w, post2.error)
               /\ UNCHANGED <<effects, idempotency>>
          ELSE /\ effects' = [effects EXCEPT ![w] =
                                 IF post2.kind = "triggered" THEN Append(@, "sync") ELSE @]
               /\ workflowJobs' = [workflowJobs EXCEPT ![w].status = "done",
                                                       ![w].step = StepDone,
                                                       ![w].result = result]
               /\ stepTrace' = [stepTrace EXCEPT ![w] = Append(@, StepDone)]
               /\ idempotency' = MapSet(idempotency, workflowJobs[w].meta.idempotencyKey,
                                        FinalEntry(result, now))
               /\ pc' = [pc EXCEPT ![w] = "end"]
    /\ UNCHANGED <<server, exchange, bridge, now, workflowSeq, calendarJobSeq, calendarJobs,
                   locals, response, store, bulk>>

\* the status argument of a completion: an nsresult, or none at all
NoStatus == -1
Statuses == {NoStatus, 0, 1, 2}

\* status && status !== 0
IsFailure(status) == status # NoStatus /\ status # 0

\* `addItem failed with status=${status}`
AddItemError(status) ==
    CASE status = 1 -> "addItem failed with status=1"
      [] status = 2 -> "addItem failed with status=2"
      [] OTHER -> "addItem failed with status"

\* `deleteItem failed with status=${status}`
DeleteItemError(status) ==
    CASE status = 1 -> "deleteItem failed with status=1"
      [] status = 2 -> "deleteItem failed with status=2"
      [] OTHER -> "deleteItem failed with status"

\* a completion that reports success whatever the status
AddItemCompleteIgnoringStatus(j, status) ==
    /\ calendarJobs[j].kind = "addItem" /\ calendarJobs[j].status = "pending"
    /\ calendarJobs' = [calendarJobs EXCEPT ![j].itemId = <<"item", j>>,
                                            ![j].status = "done"]
    /\ UNCHANGED <<server, exchange, bridge, now, workflowSeq, workflowJobs, idempotency,
                   calendarJobSeq, pc, locals, effects, stepTrace, response,
                   store, bulk>>

\* the provider calls the add listener's onOperationComplete(status, id)
AddItemComplete(j, status) ==
    /\ calendarJobs[j].kind = "addItem" /\ calendarJobs[j].status = "pending"
    /\ calendarJobs' = [calendarJobs EXCEPT
           ![j].itemId = <<"item", j>>,
           ![j].status = IF IsFailure(status) THEN "error" ELSE "done",
           ![j].error = IF IsFailure(status) THEN AddItemError(status) ELSE @]
    /\ UNCHANGED <<server, exchange, bridge, now, workflowSeq, workflowJobs, idempotency,
                   calendarJobSeq, pc, locals, effects, stepTrace, response,
                   store, bulk>>

\* the tool createCalendarEvent called on its own: the checks, the event, and
\* startAddItemJob; it returns without waiting for the provider
createCalendarEvent(args, buildThrows, addThrows) ==
    /\ LET early == createEarlyError(args)
           range == createRangeError(args)
           jobId == newCalendarJobId(calendarJobSeq)
       IN IF early # ""
          THEN /\ ~buildThrows /\ ~addThrows
               /\ response' = [NoResponse EXCEPT !.kind = "error", !.error = early]
               /\ UNCHANGED <<calendarJobSeq, calendarJobs>>
          ELSE IF buildThrows
          THEN /\ ~addThrows
               /\ response' = [NoResponse EXCEPT !.kind = "error",
                                   !.error = "createCalendarEvent threw"]
               /\ UNCHANGED <<calendarJobSeq, calendarJobs>>
          ELSE IF range # ""
          THEN /\ ~addThrows
               /\ response' = [NoResponse EXCEPT !.kind = "error", !.error = range]
               /\ UNCHANGED <<calendarJobSeq, calendarJobs>>
          ELSE /\ calendarJobSeq < MaxAddJobs
               /\ calendarJobSeq' = calendarJobSeq + 1
               /\ calendarJobs' = Append(calendarJobs,
                      [jobId |-> jobId, kind |-> "addItem",
                       status |-> IF addThrows THEN "error" ELSE "pending",
                       error |-> IF addThrows THEN "addItem threw" ELSE "",
                       itemId |-> <<>>, owner |-> 0, events |-> <<>>,
                       item |-> NewEvent(args)])
               /\ response' = [kind |-> "eventCreated", error |-> "",
                               pending |-> ~addThrows, jobId |-> jobId,
                               itemId |-> <<>>]
    /\ UNCHANGED <<server, exchange, bridge, now, workflowSeq, workflowJobs, idempotency, pc, locals, effects,
                   stepTrace, store, bulk>>

\* time passes
Tick ==
    /\ now < (MaxTicks + 1) * TickMs
    /\ now' = now + TickMs
    /\ UNCHANGED <<server, exchange, bridge, workflowSeq, workflowJobs, idempotency,
                   calendarJobSeq, calendarJobs, pc, locals, effects, stepTrace,
                   response, store, bulk>>

----------------------------------------------------------------------------
(* Bulk deletes: the calendar store, candidate matching *)

MaxBulkWorkflows == 1
MaxBulkCalls == 2

T0605 == D0204 \o <<"T", "06", ":", "05">>
T0705 == D0204 \o <<"T", "07", ":", "05">>

\* The events of the calendar store (cal_events of local.sqlite, which the
\* calendar provider serves as items): id, calendar, title, start
Item(id) ==
    CASE id = 1 -> [id |-> 1, cal_id |-> <<"c1">>, title |-> <<"A", "b">>,
                    event_start |-> DateTimeValue(2, 4, 6, 0)]
      [] id = 2 -> [id |-> 2, cal_id |-> <<"c1">>, title |-> <<"a", " ", "B">>,
                    event_start |-> DateTimeValue(2, 4, 7, 0)]
      [] id = 3 -> [id |-> 3, cal_id |-> <<"c1">>, title |-> <<"b">>,
                    event_start |-> DateTimeValue(2, 4, 6, 5)]
      [] id = 4 -> [id |-> 4, cal_id |-> <<"c2">>, title |-> <<"a", "b">>,
                    event_start |-> DateTimeValue(2, 4, 6, 0)]

InitialStore == {1, 2, 3, 4}

\* the ids of a set of items in ascending order (the order of the rows and of
\* getAllItems)
Ascending(ids) ==
    [i \in 1..Cardinality(ids) |->
        CHOOSE x \in ids : Cardinality({y \in ids : y < x}) = i - 1]

\* the keywords the loops keep: lower-cased, trimmed, blank ones skipped
Keywords(needles) ==
    SelectSeq([i \in 1..Len(needles) |-> Trim(ToLowerCase(needles[i]))],
              LAMBDA kw : kw # <<>>)

containsAll(haystack, needles) ==
    LET h == ToLowerCase(haystack)
        kws == Keywords(needles)
    IN \A i \in 1..Len(kws) : Includes(h, kws[i])

\* SQLite: text LIKE '%kw%', where a "_" of kw matches any one character
LikeContains(text, kw) ==
    \E i \in 0..(Len(text) - Len(kw)) :
        \A j \in 1..Len(kw) : kw[j] = "_" \/ text[i + j] = kw[j]

\* SELECT id, title FROM cal_events WHERE cal_id = :cal_id AND event_start >=
\* :start_us AND event_start < :end_us AND lower(title) LIKE :kw1 AND ...
SqlCandidates(items, calId, range, needles) ==
    LET kws == Keywords(needles)
    IN Ascending({id \in items :
           /\ Item(id).cal_id = calId
           /\ Item(id).event_start >= range.start
           /\ Item(id).event_start < range.end
           /\ \A i \in 1..Len(kws) :
                  LikeContains(ToLowerCase(Item(id).title), kws[i])})

clampDateTimeToRange(t, startJs, endJs) == t >= startJs /\ t < endJs

\* the items of a calendar that tbCalendar.getAllItems() returns
AllItems(items, calId) == Ascending({id \in items : Item(id).cal_id = calId})

\* the selected EAS folders whose target is the calendar
MatchingFolders(calId) == IF calId = <<"c1">> THEN 1 ELSE 0

----------------------------------------------------------------------------
(* Bulk delete requests *)

NoBulkArgs ==
    [tbsyncUser |-> <<>>, calendarId |-> <<>>, calendarName |-> <<>>,
     start |-> <<>>, end |-> <<>>, titleMustContainAll |-> <<>>]

\* three items of the window contain "b" in some case
BulkB ==
    [NoBulkArgs EXCEPT !.tbsyncUser = <<"u1">>, !.calendarId = <<"c1">>,
                       !.start = T0600, !.end = T0705,
                       !.titleMustContainAll = << <<"b">> >>]
\* two keywords; the window ends where item 2 starts
BulkAB ==
    [BulkB EXCEPT !.end = T0700, !.titleMustContainAll = << <<"A">>, <<" ", "B">> >>]
\* no keyword at all
BulkEmpty == [BulkB EXCEPT !.titleMustContainAll = <<>>]
\* a keyword with a LIKE wildcard
BulkWild == [BulkB EXCEPT !.titleMustContainAll = << <<"_", "b">> >>]
\* end not after start
BulkBadWindow == [BulkB EXCEPT !.start = T0700, !.end = T0600]

BulkRequests == {BulkB, BulkAB, BulkEmpty, BulkWild, BulkBadWindow}

\* requests the validation refuses: no start, an unknown calendar, a read-only
\* calendar, a start that is no time
BulkNoStart == [BulkB EXCEPT !.start = <<>>]
BulkUnknownCalendar == [BulkB EXCEPT !.calendarId = <<"c9">>]
BulkReadOnly == [BulkB EXCEPT !.calendarId = <<>>, !.calendarName = <<"Holidays">>]
BulkMalformed == [BulkB EXCEPT !.start = <<"tomorrow">>]

BadBulkRequests ==
    {NoBulkArgs, BulkNoStart, BulkUnknownCalendar, BulkReadOnly, BulkMalformed,
     BulkBadWindow}

\* a validation that lets a window with end <= start pass
bulkValidationErrorNoOrder(args, checkReadOnly) ==
    IF args.tbsyncUser = <<>> THEN "Missing required field: tbsyncUser"
    ELSE IF args.start = <<>> \/ args.end = <<>> THEN "Missing required fields: start, end"
    ELSE IF resolveCalendar(args) = NoCalendar THEN "Calendar not found"
    ELSE IF checkReadOnly /\ Calendars[resolveCalendar(args)].readOnly
         THEN "Calendar is read-only"
    ELSE IF makeTimedRange(args.start, args.end).kind = "null" THEN "Invalid datetime format"
    ELSE ""

\* the error the bulk deletes return before they start ("" when the arguments
\* pass); syncAndDeleteEventsBySql also refuses a read-only calendar
bulkValidationError(args, checkReadOnly) ==
    IF args.tbsyncUser = <<>> THEN "Missing required field: tbsyncUser"
    ELSE IF args.start = <<>> \/ args.end = <<>> THEN "Missing required fields: start, end"
    ELSE IF resolveCalendar(args) = NoCalendar THEN "Calendar not found"
    ELSE IF checkReadOnly /\ Calendars[resolveCalendar(args)].readOnly
         THEN "Calendar is read-only"
    ELSE IF makeTimedRange(args.start, args.end).kind = "null" THEN "Invalid datetime format"
    ELSE IF makeTimedRange(args.start, args.end).kind = "error" THEN "end must be after start"
    ELSE ""

----------------------------------------------------------------------------
(* syncAndDeleteEventsBySql: the request handler and its background steps *)

\* the two tests of the item loop
Matches(id, needles, range) ==
    /\ containsAll(Item(id).title, needles)
    /\ clampDateTimeToRange(Item(id).event_start, range.start, range.end)

IsSqlWf(w) == workflowJobs[w].meta.mode = "sql+providerDelete"

SqlWorkflows == {w \in 1..workflowSeq : IsSqlWf(w)}

\* what happens to one candidate in the delete loop: the dummy event cannot be
\* built, target.deleteItem throws, or the provider accepts the call
DeleteOutcomes == {"instanceThrows", "deleteThrows", "accepted"}

\* a workflow that counts a candidate error as its own failure
SqlFinalStatusStrict(result) == IF result.deleteErrors > 0 THEN "error" ELSE "done"

\* job.status = "done" after the post-sync calls
SqlFinalStatus(result) == "done"

\* a handler that answers pending with an id it has not registered
syncAndDeleteEventsBySqlUnregistered(args) ==
    /\ response' = [NoResponse EXCEPT !.kind = "pending",
                        !.workflowJobId = newWorkflowJobId(workflowSeq)]
    /\ UNCHANGED <<server, exchange, bridge, now, workflowSeq, workflowJobs, idempotency, calendarJobSeq,
                   calendarJobs, pc, locals, effects, stepTrace, store, bulk>>

syncAndDeleteEventsBySql(args) ==
    /\ UNCHANGED <<server, exchange, bridge, now, idempotency, calendarJobSeq, calendarJobs, store, bulk>>
    /\ LET err == bulkValidationError(args, TRUE)
           wfJobId == newWorkflowJobId(workflowSeq)
       IN IF err # ""
          THEN /\ response' = [NoResponse EXCEPT !.kind = "error", !.error = err]
               /\ UNCHANGED <<workflowSeq, workflowJobs, pc, locals, effects, stepTrace>>
          ELSE /\ Cardinality(SqlWorkflows) < MaxBulkWorkflows
               /\ workflowSeq' = workflowSeq + 1
               /\ workflowJobs' = Append(workflowJobs,
                      [jobId |-> wfJobId, status |-> "running", step |-> "querySql",
                       meta |-> [mode |-> "sql+providerDelete",
                                 tbsyncUser |-> args.tbsyncUser,
                                 calendar |-> Calendars[resolveCalendar(args)].id,
                                 start |-> args.start, end |-> args.end,
                                 titleMustContainAll |-> args.titleMustContainAll],
                       result |-> [candidateCount |-> 0, deleteTriggered |-> 0,
                                   deleteErrors |-> 0],
                       error |-> ""])
               /\ pc' = Append(pc, "open")
               /\ locals' = Append(locals,
                      [range |-> makeTimedRange(args.start, args.end),
                       connOpen |-> FALSE, opens |-> 0, closes |-> 0,
                       failed |-> "", candidates |-> <<>>,
                       matchingAtQuery |-> {}, pendingSyncs |-> 0, syncFailed |-> FALSE])
               /\ effects' = Append(effects, <<>>)
               /\ stepTrace' = Append(stepTrace, <<"querySql">>)
               /\ response' = [NoResponse EXCEPT !.kind = "pending",
                                   !.workflowJobId = wfJobId]

\* const conn = await Sqlite.openConnection(...); conn.execute(sql, params)
SqlOpened(w, ok) ==
    /\ IsSqlWf(w) /\ pc[w] = "open"
    /\ IF ok
       THEN /\ locals' = [locals EXCEPT ![w].connOpen = TRUE, ![w].opens = @ + 1]
            /\ pc' = [pc EXCEPT ![w] = "execute"]
            /\ UNCHANGED <<workflowJobs, stepTrace>>
       ELSE /\ Fail(w, "openConnection failed")
            /\ locals' = [locals EXCEPT ![w].failed = "open"]
    /\ UNCHANGED <<server, exchange, bridge, now, workflowSeq, idempotency, calendarJobSeq, calendarJobs,
                   effects, response, store, bulk>>

\* const rows = await conn.execute(sql, params); ...; the delete loop; then
\* conn.close() in the finally block
SqlExecuted(w, ok, outcome) ==
    /\ IsSqlWf(w) /\ pc[w] = "execute"
    /\ IF ~ok
       THEN /\ locals' = [locals EXCEPT ![w].failed = "execute"]
            /\ pc' = [pc EXCEPT ![w] = "close"]
            /\ UNCHANGED <<workflowJobs, stepTrace, calendarJobSeq, calendarJobs, effects>>
       ELSE LET ids == SqlCandidates(store, workflowJobs[w].meta.calendar,
                                     locals[w].range,
                                     workflowJobs[w].meta.titleMustContainAll)
                started == SelectSeq([i \in 1..Len(ids) |-> i],
                                     LAMBDA i : outcome[i] # "instanceThrows")
                newJobs == [k \in 1..Len(started) |->
                              [jobId |-> <<"caljob", calendarJobSeq + k>>,
                               kind |-> "deleteItem",
                               status |-> IF outcome[started[k]] = "deleteThrows"
                                          THEN "error" ELSE "pending",
                               error |-> IF outcome[started[k]] = "deleteThrows"
                                         THEN "deleteItem threw" ELSE "",
                               itemId |-> <<>>, owner |-> w, events |-> <<>>,
                               deletedId |-> ids[started[k]]]]
            IN /\ \A i \in DOMAIN outcome : i > Len(ids) => outcome[i] = "accepted"
               /\ workflowJobs' = [workflowJobs EXCEPT
                      ![w].step = "delete",
                      ![w].result = [candidateCount |-> Len(ids),
                                     deleteTriggered |-> Len(started),
                                     deleteErrors |-> Len(ids) - Len(started)]]
               /\ stepTrace' = [stepTrace EXCEPT ![w] = Append(@, "delete")]
               /\ calendarJobSeq' = calendarJobSeq + Len(started)
               /\ calendarJobs' = calendarJobs \o newJobs
               /\ effects' = [effects EXCEPT ![w] =
                      @ \o [k \in 1..Len(started) |-> "deleteItem"]]
               /\ locals' = [locals EXCEPT
                      ![w].candidates = ids,
                      ![w].matchingAtQuery =
                          {id \in store : /\ Item(id).cal_id = workflowJobs[w].meta.calendar
                                          /\ Matches(id, workflowJobs[w].meta.titleMustContainAll,
                                                     locals[w].range)}]
               /\ pc' = [pc EXCEPT ![w] = "close"]
    /\ UNCHANGED <<server, exchange, bridge, now, workflowSeq, idempotency, response, store, bulk>>

\* a close that is reached only when the provider has completed every delete
SqlClosedAwaitingDeletes(w, ok) ==
    /\ IsSqlWf(w) /\ pc[w] = "close"
    /\ \A j \in 1..calendarJobSeq :
          calendarJobs[j].owner = w => calendarJobs[j].status # "pending"
    /\ IF ~ok \/ locals[w].failed # ""
       THEN /\ Fail(w, IF ~ok THEN "close failed" ELSE "execute failed")
            /\ locals' = [locals EXCEPT ![w].connOpen = ~ok, ![w].closes = @ + 1,
                                        ![w].failed = IF @ = "" THEN "close" ELSE @]
       ELSE /\ workflowJobs' = [workflowJobs EXCEPT
                   ![w].status = SqlFinalStatus(workflowJobs[w].result),
                   ![w].step = IF SqlFinalStatus(workflowJobs[w].result) = "done"
                               THEN "done" ELSE "error"]
            /\ stepTrace' = [stepTrace EXCEPT ![w] = @ \o <<"postSync", "done">>]
            /\ locals' = [locals EXCEPT ![w].connOpen = FALSE, ![w].closes = @ + 1,
                                        ![w].pendingSyncs = 2]
            /\ pc' = [pc EXCEPT ![w] = "end"]
    /\ UNCHANGED <<server, exchange, bridge, now, workflowSeq, idempotency, calendarJobSeq, calendarJobs,
                   effects, response, store, bulk>>

\* await conn.close(); job.step = "postSync"; the two post-sync calls are
\* started and not awaited; job.status = "done"
SqlClosed(w, ok) ==
    /\ IsSqlWf(w) /\ pc[w] = "close"
    /\ IF ~ok \/ locals[w].failed # ""
       THEN /\ Fail(w, IF ~ok THEN "close failed" ELSE "execute failed")
            /\ locals' = [locals EXCEPT ![w].connOpen = ~ok, ![w].closes = @ + 1,
                                        ![w].failed = IF @ = "" THEN "close" ELSE @]
       ELSE /\ workflowJobs' = [workflowJobs EXCEPT
                   ![w].status = SqlFinalStatus(workflowJobs[w].result),
                   ![w].step = IF SqlFinalStatus(workflowJobs[w].result) = "done"
                               THEN "done" ELSE "error"]
            /\ stepTrace' = [stepTrace EXCEPT ![w] = @ \o <<"postSync", "done">>]
            /\ locals' = [locals EXCEPT ![w].connOpen = FALSE, ![w].closes = @ + 1,
                                        ![w].pendingSyncs = 2]
            /\ pc' = [pc EXCEPT ![w] = "end"]
    /\ UNCHANGED <<server, exchange, bridge, now, workflowSeq, idempotency, calendarJobSeq, calendarJobs,
                   effects, response, store, bulk>>

\* a post-sync that is triggered while the query is still awaited
SqlSyncCallReturnsEarly(w, active) ==
    /\ IsSqlWf(w) /\ pc[w] = "execute" /\ effects[w] = <<>>
    /\ effects' = [effects EXCEPT ![w] = Append(@, "sync")]
    /\ UNCHANGED <<server, exchange, bridge, now, workflowSeq, workflowJobs, idempotency, calendarJobSeq,
                   calendarJobs, pc, locals, stepTrace, response, store, bulk>>

\* one of the post-sync calls that were not awaited returns or throws; nobody
\* looks at its outcome
SqlSyncCallReturns(w, active) ==
    /\ IsSqlWf(w) /\ locals[w].pendingSyncs > 0
    /\ LET post == tbsyncSyncAccountByUser(workflowJobs[w].meta.tbsyncUser, active)
       IN /\ locals' = [locals EXCEPT ![w].pendingSyncs = @ - 1,
                                      ![w].syncFailed = @ \/ post.kind # "triggered"]
          /\ effects' = [effects EXCEPT ![w] =
                            IF post.kind = "triggered" THEN Append(@, "sync") ELSE @]
    /\ UNCHANGED <<server, exchange, bridge, now, workflowSeq, workflowJobs, idempotency, calendarJobSeq,
                   calendarJobs, pc, stepTrace, response, store, bulk>>

\* the provider calls the delete listener's onOperationComplete(status)
DeleteItemComplete(j, status) ==
    /\ calendarJobs[j].kind = "deleteItem" /\ calendarJobs[j].status = "pending"
    /\ calendarJobs' = [calendarJobs EXCEPT
           ![j].status = IF IsFailure(status) THEN "error" ELSE "done",
           ![j].error = IF IsFailure(status) THEN DeleteItemError(status) ELSE @]
    /\ store' = IF IsFailure(status) THEN store ELSE store \ {calendarJobs[j].deletedId}
    /\ UNCHANGED <<server, exchange, bridge, now, workflowSeq, workflowJobs, idempotency, calendarJobSeq, pc,
                   locals, effects, stepTrace, response, bulk>>

----------------------------------------------------------------------------
(* tbsyncDeleteEasEventsByTitleRange: one call and its awaits *)

IdleCall ==
    [pc |-> "idle", args |-> NoBulkArgs,
     range |-> [kind |-> "null", start |-> 0, end |-> 0], items |-> <<>>, idx |-> 0,
     folderCount |-> 0, totalItems |-> 0, matched |-> 0, deleted |-> 0,
     errors |-> 0, attempted |-> <<>>, returned |-> FALSE,
     calls |-> 0, pendingSyncs |-> 0, triggers |-> 0,
     tool |-> "", opens |-> 0, closes |-> 0, failed |-> FALSE,
     notFound |-> 0, modified |-> 0, changelog |-> 0, syncCalls |-> 0,
     syncToolCalls |-> 0, timedOut |-> {}]

\* the index of the first item at or after from that passes both tests (0: none)
NextMatch(items, needles, range, from) ==
    LET hits == {i \in from..Len(items) : Matches(items[i], needles, range)}
    IN IF hits = {} THEN 0 ELSE CHOOSE i \in hits : \A j \in hits : i <= j

TitleRangeResult(b) ==
    [kind |-> "deleted", error |-> "", folderCount |-> b.folderCount,
     totalItems |-> b.totalItems, matched |-> b.matched, deleted |-> b.deleted,
     errors |-> b.errors]

\* the two sync calls after the folder loop are started and not awaited; the
\* counters are returned
TitleRangeReturn(b) ==
    /\ bulk' = [b EXCEPT !.pc = "idle", !.returned = TRUE, !.pendingSyncs = @ + 2,
                         !.syncCalls = 2]
    /\ response' = TitleRangeResult(b)

\* the item loop from index from: skip the items that fail a test, count the
\* next one as matched and await its deleteItem, or leave the loop
TitleRangeLoop(b, from) ==
    LET i == NextMatch(b.items, b.args.titleMustContainAll, b.range, from)
    IN IF i = 0
       THEN TitleRangeReturn(b)
       ELSE /\ bulk' = [b EXCEPT !.pc = "deleteItem", !.idx = i, !.matched = @ + 1,
                                 !.attempted = Append(@, b.items[i])]
            /\ UNCHANGED response

tbsyncDeleteEasEventsByTitleRange(args) ==
    /\ bulk.pc = "idle"
    /\ LET err == IF args.tbsyncUser = <<>> THEN "Missing required field: tbsyncUser"
                  ELSE IF args.start = <<>> \/ args.end = <<>>
                       THEN "Missing required fields: start, end"
                  ELSE IF resolveCalendar(args) = NoCalendar THEN "Calendar not found"
                  ELSE ""
       IN IF err # ""
          THEN /\ response' = [NoResponse EXCEPT !.kind = "error", !.error = err]
               /\ UNCHANGED bulk
          ELSE /\ bulk.calls < MaxBulkCalls
               /\ bulk' = [IdleCall EXCEPT !.pc = "getTbSyncModule", !.args = args,
                                           !.calls = bulk.calls + 1,
                                           !.pendingSyncs = bulk.pendingSyncs,
                                           !.triggers = bulk.triggers]
               /\ UNCHANGED response
    /\ UNCHANGED <<server, exchange, bridge, now, workflowSeq, workflowJobs, idempotency, calendarJobSeq,
                   calendarJobs, pc, locals, effects, stepTrace, store>>

\* await getTbSyncModule() returns or throws; then the folders and the range
TitleRangeModule(active) ==
    /\ bulk.pc = "getTbSyncModule"
    /\ LET range == makeTimedRange(bulk.args.start, bulk.args.end)
           calId == Calendars[resolveCalendar(bulk.args)].id
           b == [bulk EXCEPT !.folderCount = MatchingFolders(calId), !.range = range]
       IN IF ~active
          THEN /\ response' = [NoResponse EXCEPT !.kind = "error",
                                   !.error = "TbSync is not active"]
               /\ bulk' = [bulk EXCEPT !.pc = "idle"]
          ELSE IF range.kind # "range"
          THEN /\ response' = [NoResponse EXCEPT !.kind = "error",
                                   !.error = IF range.kind = "null"
                                             THEN "Invalid datetime format"
                                             ELSE "end must be after start"]
               /\ bulk' = [bulk EXCEPT !.pc = "idle"]
          ELSE IF b.folderCount = 0
          THEN TitleRangeReturn(b)
          ELSE /\ bulk' = [b EXCEPT !.pc = "getTarget"]
               /\ UNCHANGED response
    /\ UNCHANGED <<server, exchange, bridge, now, workflowSeq, workflowJobs, idempotency, calendarJobSeq,
                   calendarJobs, pc, locals, effects, stepTrace, store>>

\* await folder.targetData.getTarget()
TitleRangeGetTarget(ok) ==
    /\ bulk.pc = "getTarget"
    /\ IF ok
       THEN bulk' = [bulk EXCEPT !.pc = "getAllItems"] /\ UNCHANGED response
       ELSE TitleRangeReturn([bulk EXCEPT !.errors = @ + 1])
    /\ UNCHANGED <<server, exchange, bridge, now, workflowSeq, workflowJobs, idempotency, calendarJobSeq,
                   calendarJobs, pc, locals, effects, stepTrace, store>>

\* await tbCalendar.getAllItems(): an array, something else, or a throw
TitleRangeGetAllItems(outcome) ==
    /\ bulk.pc = "getAllItems"
    /\ LET calId == Calendars[resolveCalendar(bulk.args)].id
           items == AllItems(store, calId)
       IN IF outcome = "array"
          THEN TitleRangeLoop([bulk EXCEPT !.items = items,
                                           !.totalItems = @ + Len(items)], 1)
          ELSE TitleRangeReturn([bulk EXCEPT !.errors = @ + 1])
    /\ UNCHANGED <<server, exchange, bridge, now, workflowSeq, workflowJobs, idempotency, calendarJobSeq,
                   calendarJobs, pc, locals, effects, stepTrace, store>>

\* await tbCalendar.deleteItem(tbItem, false) returns or throws; a throw
\* leaves the item loop through the catch of the folder loop
TitleRangeDeleteReturns(ok) ==
    /\ bulk.pc = "deleteItem"
    /\ IF ok
       THEN /\ store' = store \ {bulk.items[bulk.idx]}
            /\ TitleRangeLoop([bulk EXCEPT !.deleted = @ + 1], bulk.idx + 1)
       ELSE /\ UNCHANGED store
            /\ TitleRangeReturn([bulk EXCEPT !.errors = @ + 1])
    /\ UNCHANGED <<server, exchange, bridge, now, workflowSeq, workflowJobs, idempotency, calendarJobSeq,
                   calendarJobs, pc, locals, effects, stepTrace>>

\* one of the sync calls of an earlier return completes
TitleRangeSyncReturns(active) ==
    /\ bulk.pendingSyncs > 0
    /\ LET post == tbsyncSyncAccountByUser(bulk.args.tbsyncUser, active)
       IN bulk' = [bulk EXCEPT !.pendingSyncs = @ - 1,
                        !.triggers = IF post.kind = "triggered" THEN @ + 1 ELSE @]
    /\ UNCHANGED <<server, exchange, bridge, now, workflowSeq, workflowJobs, idempotency, calendarJobSeq,
                   calendarJobs, pc, locals, effects, stepTrace, response, store>>

\* the emails the tool is called with: as stored, in another case, with blanks
\* around, of two accounts, of no account, and none
UserEmails == {<<"u1">>, <<"U1">>, <<" ", "u1", " ">>, <<"u2">>, <<"u0">>, <<>>}

\* callTool("tbsyncSyncAccountByUser", {userEmail}): the result of the call,
\* or the error of a call that threw; triggers counts the syncAccount calls
tbsyncSyncAccountByUserTool(userEmail, active) ==
    /\ bulk.pc = "idle" /\ bulk.syncToolCalls < MaxSyncCalls
    /\ LET r == tbsyncSyncAccountByUser(userEmail, active)
       IN /\ bulk' = [bulk EXCEPT !.syncToolCalls = @ + 1,
                          !.triggers = IF r.kind = "triggered" THEN @ + 1 ELSE @]
          /\ response' = [kind |-> "sync", error |-> r.error, thrown |-> r.kind = "throw",
                          userEmail |-> userEmail, accountID |-> r.accountID,
                          triggered |-> r.kind = "triggered"]
    /\ UNCHANGED <<server, exchange, bridge, now, workflowSeq, workflowJobs, idempotency,
                   calendarJobSeq, calendarJobs, pc, locals, effects, stepTrace, store>>

----------------------------------------------------------------------------
(* tbsyncDeleteEasEventsBySqlChangelog, tbsyncDeleteEasEventsNativeBySql and
   tbsyncModifyEasEventsBySql: one call, its candidate query and its item loop *)

\* a modify request: the window of the candidates and the new time
ModifyB ==
    [tbsyncUser |-> <<"u1">>, calendarId |-> <<"c1">>, calendarName |-> <<>>,
     start |-> T0600, end |-> T0705, titleMustContainAll |-> << <<"b">> >>,
     allDay |-> "false", newDate |-> <<>>, newStart |-> T0700, newEnd |-> T0705]
\* a modify request without the new time
ModifyNoNewTime == [ModifyB EXCEPT !.newStart = <<>>]

ModifyRequests == {ModifyB, ModifyNoNewTime}

\* the checks of tbsyncModifyEasEventsBySql before it asks for TbSync
modifyValidationError(args) ==
    IF bulkValidationError(args, FALSE) # "" THEN bulkValidationError(args, FALSE)
    ELSE IF args.allDay = "true"
         THEN IF args.newDate = <<>>
              THEN "Missing required field for allDay modify: newDate"
              ELSE IF makeAllDayRange(args.newDate).kind = "null"
                   THEN "Invalid newDate format"
                   ELSE ""
         ELSE IF args.newStart = <<>> \/ args.newEnd = <<>>
              THEN "Missing required fields for timed modify: newStart, newEnd"
              ELSE IF makeTimedRange(args.newStart, args.newEnd).kind = "null"
                   THEN "Invalid datetime format for newStart/newEnd"
                   ELSE IF makeTimedRange(args.newStart, args.newEnd).kind = "error"
                        THEN "end must be after start"
                        ELSE ""

\* the call starts: an error of the argument checks is returned at once,
\* otherwise the call runs up to await getTbSyncModule()
QueryCallStarts(tool, args, err) ==
    /\ IF err # ""
       THEN /\ response' = [NoResponse EXCEPT !.kind = "error", !.error = err]
            /\ UNCHANGED bulk
       ELSE /\ bulk.calls < MaxBulkCalls
            /\ bulk' = [IdleCall EXCEPT !.pc = "getTbSyncModule", !.tool = tool,
                                        !.args = args,
                                        !.range = makeTimedRange(args.start, args.end),
                                        !.calls = bulk.calls + 1,
                                        !.pendingSyncs = bulk.pendingSyncs,
                                        !.triggers = bulk.triggers]
            /\ UNCHANGED response
    /\ UNCHANGED <<server, exchange, bridge, now, workflowSeq, workflowJobs, idempotency, calendarJobSeq,
                   calendarJobs, pc, locals, effects, stepTrace, store>>

tbsyncDeleteEasEventsBySqlChangelog(args) ==
    /\ bulk.pc = "idle"
    /\ QueryCallStarts("changelog", args, bulkValidationError(args, FALSE))

tbsyncDeleteEasEventsNativeBySql(args) ==
    /\ bulk.pc = "idle"
    /\ QueryCallStarts("native", args, bulkValidationError(args, FALSE))

tbsyncModifyEasEventsBySql(args) ==
    /\ bulk.pc = "idle"
    /\ QueryCallStarts("modify", args, modifyValidationError(args))

QueryTools == {"changelog", "native", "modify"}

\* the call returns an error or throws: the tool answers with the error
QueryThrows(b, msg) ==
    /\ bulk' = [b EXCEPT !.pc = "idle", !.returned = TRUE]
    /\ response' = [NoResponse EXCEPT !.kind = "error", !.error = msg]

\* errors.slice(0, 5): the result shows at most five of the errors
ErrorsReturned == 5

\* the counters returned; the syncs after the loop are started and not awaited
QueryReturn(b) ==
    /\ bulk' = [b EXCEPT !.pc = "idle", !.returned = TRUE,
                         !.pendingSyncs = @ + (IF b.tool = "modify" THEN 2 ELSE 1),
                         !.syncCalls = IF b.tool = "modify" THEN 2 ELSE 1]
    /\ response' = [kind |-> "queryResult", error |-> "", tool |-> b.tool,
                    candidateCount |-> Len(b.items), deleted |-> b.deleted,
                    notFound |-> b.notFound, modified |-> b.modified,
                    errors |-> IF b.errors > ErrorsReturned THEN ErrorsReturned
                               ELSE b.errors]

\* the candidate loop from index from: await getItem for the next candidate,
\* or leave the loop
QueryLoop(b, from) ==
    IF from > Len(b.items)
    THEN QueryReturn(b)
    ELSE /\ bulk' = [b EXCEPT !.pc = "getItem", !.idx = from]
         /\ UNCHANGED response

\* await getTbSyncModule() returns or throws; the delete and modify tools then
\* look for the selected folder of the calendar
QueryModule(active) ==
    /\ bulk.tool \in QueryTools /\ bulk.pc = "getTbSyncModule"
    /\ LET calId == Calendars[resolveCalendar(bulk.args)].id
           b == [bulk EXCEPT !.folderCount = MatchingFolders(calId)]
       IN IF ~active
          THEN QueryThrows(bulk, "TbSync is not installed/enabled")
          ELSE IF bulk.tool # "changelog" /\ b.folderCount = 0
          THEN QueryThrows(b, IF bulk.tool = "native"
                              THEN "No selected EAS folder mapped to this calendar"
                              ELSE "No EAS folder mapped to this calendar")
          ELSE /\ bulk' = [b EXCEPT !.pc = "open"]
               /\ UNCHANGED response
    /\ UNCHANGED <<server, exchange, bridge, now, workflowSeq, workflowJobs, idempotency, calendarJobSeq,
                   calendarJobs, pc, locals, effects, stepTrace, store>>

\* const conn = await Sqlite.openConnection(...) returns or throws
QueryOpened(ok) ==
    /\ bulk.tool \in QueryTools /\ bulk.pc = "open"
    /\ IF ok
       THEN /\ bulk' = [bulk EXCEPT !.pc = "execute", !.opens = @ + 1]
            /\ UNCHANGED response
       ELSE QueryThrows(bulk, "openConnection failed")
    /\ UNCHANGED <<server, exchange, bridge, now, workflowSeq, workflowJobs, idempotency, calendarJobSeq,
                   calendarJobs, pc, locals, effects, stepTrace, store>>

\* a query whose failure leaves the function at once
QueryExecutedNoFinally(ok) ==
    /\ bulk.tool \in QueryTools /\ bulk.pc = "execute"
    /\ IF ok
       THEN /\ bulk' = [bulk EXCEPT !.pc = "close",
                   !.items = SqlCandidates(store, Calendars[resolveCalendar(bulk.args)].id,
                                           bulk.range, bulk.args.titleMustContainAll)]
            /\ UNCHANGED response
       ELSE QueryThrows(bulk, "execute failed")
    /\ UNCHANGED <<server, exchange, bridge, now, workflowSeq, workflowJobs, idempotency, calendarJobSeq,
                   calendarJobs, pc, locals, effects, stepTrace, store>>

\* const rows = await conn.execute(sql, params) returns or throws; either way
\* the finally block goes on to await conn.close()
QueryExecuted(ok) ==
    /\ bulk.tool \in QueryTools /\ bulk.pc = "execute"
    /\ bulk' = IF ok
               THEN [bulk EXCEPT !.pc = "close",
                        !.items = SqlCandidates(store,
                                      Calendars[resolveCalendar(bulk.args)].id,
                                      bulk.range, bulk.args.titleMustContainAll)]
               ELSE [bulk EXCEPT !.pc = "close", !.failed = TRUE]
    /\ UNCHANGED <<server, exchange, bridge, now, workflowSeq, workflowJobs, idempotency, calendarJobSeq,
                   calendarJobs, pc, locals, effects, stepTrace, response, store>>

\* await conn.close() returns or throws; a throw of the query or of the close
\* leaves the function; the changelog tool marks every candidate, starts one
\* sync and returns; the other tools go on to the folder's target
QueryClosed(ok) ==
    /\ bulk.tool \in QueryTools /\ bulk.pc = "close"
    /\ LET b == [bulk EXCEPT !.closes = @ + 1]
       IN IF b.failed THEN QueryThrows(b, "execute failed")
          ELSE IF ~ok THEN QueryThrows(b, "close failed")
          ELSE IF b.tool = "changelog"
               THEN QueryReturn([b EXCEPT !.changelog = Len(b.items)])
               ELSE /\ bulk' = [b EXCEPT !.pc = "getTarget"]
                    /\ UNCHANGED response
    /\ UNCHANGED <<server, exchange, bridge, now, workflowSeq, workflowJobs, idempotency, calendarJobSeq,
                   calendarJobs, pc, locals, effects, stepTrace, store>>

\* tbCalendar = await folder.targetData.getTarget() returns or throws
QueryGetTarget(ok) ==
    /\ bulk.tool \in QueryTools /\ bulk.pc = "getTarget"
    /\ IF ok THEN QueryLoop(bulk, 1)
       ELSE QueryReturn([bulk EXCEPT !.errors = @ + 1])
    /\ UNCHANGED <<server, exchange, bridge, now, workflowSeq, workflowJobs, idempotency, calendarJobSeq,
                   calendarJobs, pc, locals, effects, stepTrace, store>>

GetItemOutcomes == {"item", "null", "timeout", "throws"}

\* a lookup that is waited for after its deadline has passed
QueryGetItemReturnsLate(outcome) ==
    /\ bulk.tool \in QueryTools /\ bulk.pc = "getItem"
    /\ outcome = "item" => bulk.items[bulk.idx] \in store
    /\ outcome = "timeout" => bulk.tool = "native"
    /\ CASE outcome \in {"item", "timeout"} ->
               /\ bulk' = [bulk EXCEPT !.pc = IF bulk.tool = "native"
                                              THEN "deleteItem" ELSE "modifyItem",
                                       !.attempted = Append(@, bulk.items[bulk.idx]),
                                       !.timedOut = IF outcome = "timeout"
                                                    THEN @ \cup {bulk.items[bulk.idx]}
                                                    ELSE @]
               /\ UNCHANGED response
         [] outcome = "null" ->
               QueryLoop([bulk EXCEPT !.notFound =
                              IF bulk.tool = "native" THEN @ + 1 ELSE @],
                         bulk.idx + 1)
         [] OTHER ->
               QueryLoop([bulk EXCEPT !.errors = @ + 1], bulk.idx + 1)
    /\ UNCHANGED <<server, exchange, bridge, now, workflowSeq, workflowJobs, idempotency, calendarJobSeq,
                   calendarJobs, pc, locals, effects, stepTrace, store>>

\* the await on getItem ends: the item, null, a throw, or, in the delete tool
\* only, the timeoutAfter(3000) it is raced against
QueryGetItemReturns(outcome) ==
    /\ bulk.tool \in QueryTools /\ bulk.pc = "getItem"
    /\ outcome = "item" => bulk.items[bulk.idx] \in store
    /\ outcome = "timeout" => bulk.tool = "native"
    /\ CASE outcome = "item" ->
               /\ bulk' = [bulk EXCEPT !.pc = IF bulk.tool = "native"
                                              THEN "deleteItem" ELSE "modifyItem",
                                       !.attempted = Append(@, bulk.items[bulk.idx])]
               /\ UNCHANGED response
         [] outcome \in {"null", "timeout"} ->
               QueryLoop([bulk EXCEPT !.notFound =
                              IF bulk.tool = "native" THEN @ + 1 ELSE @,
                                      !.timedOut = IF outcome = "timeout"
                                                   THEN @ \cup {bulk.items[bulk.idx]}
                                                   ELSE @],
                         bulk.idx + 1)
         [] OTHER ->
               QueryLoop([bulk EXCEPT !.errors = @ + 1], bulk.idx + 1)
    /\ UNCHANGED <<server, exchange, bridge, now, workflowSeq, workflowJobs, idempotency, calendarJobSeq,
                   calendarJobs, pc, locals, effects, stepTrace, store>>

\* await tbCalendar.deleteItem(tbItem, false), or modifyItem(tbNew, tbOld,
\* false), returns or throws; nothing else ends this await
QueryWriteReturns(ok) ==
    /\ bulk.tool \in QueryTools /\ bulk.pc \in {"deleteItem", "modifyItem"}
    /\ store' = IF ok /\ bulk.pc = "deleteItem"
                THEN store \ {bulk.items[bulk.idx]} ELSE store
    /\ QueryLoop([bulk EXCEPT
                      !.deleted = IF ok /\ bulk.pc = "deleteItem" THEN @ + 1 ELSE @,
                      !.modified = IF ok /\ bulk.pc = "modifyItem" THEN @ + 1 ELSE @,
                      !.errors = IF ok THEN @ ELSE @ + 1],
                 bulk.idx + 1)
    /\ UNCHANGED <<server, exchange, bridge, now, workflowSeq, workflowJobs, idempotency, calendarJobSeq,
                   calendarJobs, pc, locals, effects, stepTrace>>

----------------------------------------------------------------------------
(* syncAndDeleteEventsByTitle: the request handler and its listener *)

IsTitleWf(w) == workflowJobs[w].meta.mode = "provider"

TitleWorkflows == {w \in 1..workflowSeq : IsTitleWf(w)}

\* what target.getItems(filter, 0, range.start, range.end, listener) reports:
\* the events of the calendar that start in the range
ItemsInRange(items, calId, range) ==
    Ascending({id \in items : /\ Item(id).cal_id = calId
                              /\ Item(id).event_start >= range.start
                              /\ Item(id).event_start < range.end})

syncAndDeleteEventsByTitle(args, getItemsThrows) ==
    /\ UNCHANGED <<server, exchange, bridge, now, idempotency, calendarJobSeq, calendarJobs, store, bulk>>
    /\ LET err == bulkValidationError(args, TRUE)
           wfJobId == newWorkflowJobId(workflowSeq)
           range == makeTimedRange(args.start, args.end)
           calId == Calendars[resolveCalendar(args)].id
       IN IF err # ""
          THEN /\ ~getItemsThrows
               /\ response' = [NoResponse EXCEPT !.kind = "error", !.error = err]
               /\ UNCHANGED <<workflowSeq, workflowJobs, pc, locals, effects, stepTrace>>
          ELSE /\ Cardinality(TitleWorkflows) < MaxBulkWorkflows
               /\ workflowSeq' = workflowSeq + 1
               /\ workflowJobs' = Append(workflowJobs,
                      [jobId |-> wfJobId,
                       status |-> IF getItemsThrows THEN "error" ELSE "running",
                       step |-> IF getItemsThrows THEN "error" ELSE "scanAndDelete",
                       meta |-> [mode |-> "provider",
                                 tbsyncUser |-> args.tbsyncUser,
                                 calendar |-> calId,
                                 start |-> args.start, end |-> args.end,
                                 titleMustContainAll |-> args.titleMustContainAll],
                       result |-> [matched |-> 0, deletedTriggered |-> 0],
                       error |-> IF getItemsThrows THEN "getItems threw" ELSE ""])
               /\ pc' = Append(pc, "scan")
               /\ locals' = Append(locals,
                      [range |-> range,
                       listing |-> IF getItemsThrows THEN <<>>
                                   ELSE ItemsInRange(store, calId, range),
                       cursor |-> 0, pendingSyncs |-> 0, syncFailed |-> FALSE])
               /\ effects' = Append(effects, <<>>)
               /\ stepTrace' = Append(stepTrace,
                      IF getItemsThrows THEN <<"scanAndDelete", "error">>
                      ELSE <<"scanAndDelete">>)
               /\ response' = [NoResponse EXCEPT !.kind = "pending",
                                   !.workflowJobId = wfJobId]

\* listener.onGetResult(..., count, items): the provider reports the next
\* count events; each one that passes containsAll is counted and handed to
\* startDeleteItemJob, where target.deleteItem throws or is accepted
TitleOnGetResult(w, count, outcome) ==
    /\ IsTitleWf(w) /\ pc[w] = "scan"
    /\ locals[w].cursor + count <= Len(locals[w].listing)
    /\ LET items == SubSeq(locals[w].listing, locals[w].cursor + 1,
                           locals[w].cursor + count)
           hits == SelectSeq([i \in 1..count |-> i],
                       LAMBDA i : containsAll(Item(items[i]).title,
                                              workflowJobs[w].meta.titleMustContainAll))
           newJobs == [k \in 1..Len(hits) |->
                         [jobId |-> <<"caljob", calendarJobSeq + k>>,
                          kind |-> "deleteItem",
                          status |-> IF outcome[hits[k]] = "deleteThrows"
                                     THEN "error" ELSE "pending",
                          error |-> IF outcome[hits[k]] = "deleteThrows"
                                    THEN "deleteItem threw" ELSE "",
                          itemId |-> <<>>, owner |-> w, events |-> <<>>,
                          deletedId |-> items[hits[k]]]]
       IN /\ \A i \in DOMAIN outcome :
                 (i > count \/ i \notin {hits[k] : k \in 1..Len(hits)})
                     => outcome[i] = "accepted"
          /\ workflowJobs' = [workflowJobs EXCEPT
                 ![w].result = [matched |-> @.matched + Len(hits),
                                deletedTriggered |-> @.deletedTriggered + Len(hits)]]
          /\ calendarJobSeq' = calendarJobSeq + Len(hits)
          /\ calendarJobs' = calendarJobs \o newJobs
          /\ effects' = [effects EXCEPT ![w] = @ \o [k \in 1..Len(hits) |-> "deleteItem"]]
          /\ locals' = [locals EXCEPT ![w].cursor = @ + count]
    /\ UNCHANGED <<server, exchange, bridge, now, workflowSeq, idempotency, pc, stepTrace, response, store, bulk>>

\* listener.onOperationComplete(): job.step = "postSync"; the two post-sync
\* calls are started and not awaited; job.status = "done". The listener does
\* not look at job.status: the provider holds it from the getItems call on
\* (pc = "scan"), also when that call went on to throw.
TitleOnOperationComplete(w) ==
    /\ IsTitleWf(w) /\ pc[w] = "scan"
    /\ workflowJobs' = [workflowJobs EXCEPT ![w].status = "done", ![w].step = "done"]
    /\ stepTrace' = [stepTrace EXCEPT ![w] = @ \o <<"postSync", "done">>]
    /\ locals' = [locals EXCEPT ![w].pendingSyncs = 2]
    /\ pc' = [pc EXCEPT ![w] = "end"]
    /\ UNCHANGED <<server, exchange, bridge, now, workflowSeq, idempotency, calendarJobSeq, calendarJobs,
                   effects, response, store, bulk>>

\* one of the post-sync calls that were not awaited returns or throws
TitleSyncCallReturns(w, active) ==
    /\ IsTitleWf(w) /\ locals[w].pendingSyncs > 0
    /\ LET post == tbsyncSyncAccountByUser(workflowJobs[w].meta.tbsyncUser, active)
       IN /\ locals' = [locals EXCEPT ![w].pendingSyncs = @ - 1,
                                      ![w].syncFailed = @ \/ post.kind # "triggered"]
          /\ effects' = [effects EXCEPT ![w] =
                            IF post.kind = "triggered" THEN Append(@, "sync") ELSE @]
    /\ UNCHANGED <<server, exchange, bridge, now, workflowSeq, workflowJobs, idempotency, calendarJobSeq,
                   calendarJobs, pc, stepTrace, response, store, bulk>>

----------------------------------------------------------------------------
(* Query jobs: listCalendarEvents, listEventsOnDate and the getItems listener *)

MaxJobs == 2

NoListArgs ==
    [calendarId |-> <<>>, calendarName |-> <<>>, start |-> <<>>, end |-> <<>>,
     date |-> <<>>]

\* the window that holds the three events of calendar c1
ListWindow == [NoListArgs EXCEPT !.calendarId = <<"c1">>, !.start = T0600, !.end = T0705]
\* the day of the events, calendar given by name
ListDay == [NoListArgs EXCEPT !.calendarName = <<"Work">>, !.date = D0204]
\* end before start, and a date that does not parse
ListBad == [NoListArgs EXCEPT !.calendarId = <<"c1">>, !.start = T0700, !.end = T0600,
                              !.date = <<"tomorrow">>]

ListRequests == {ListWindow, ListDay, ListBad, NoListArgs}

\* a batch that replaces what was delivered before
ReplaceBatch(events, items) == items

\* job.events.push(...) for each of the count items
AppendBatch(events, items) == events \o items

\* startGetItemsJob: the job record, pending or in error when getItems threw
startGetItemsJob(seq, calId, range, metaKind, getItemsThrows) ==
    [jobId |-> newCalendarJobId(seq), kind |-> "getItems",
     status |-> IF getItemsThrows THEN "error" ELSE "pending",
     error |-> IF getItemsThrows THEN "getItems threw" ELSE "",
     itemId |-> <<>>, owner |-> 0, events |-> <<>>,
     meta |-> [kind |-> metaKind, calendar |-> calId, range |-> range]]

\* the calendar lookup the list tools do inline
ListTarget(args) ==
    IF args.calendarId # <<>> THEN FindById(args.calendarId)
    ELSE IF args.calendarName # <<>> THEN FindByName(args.calendarName)
         ELSE NoCalendar

StartedResponse(job) ==
    [kind |-> "started", error |-> "", jobId |-> job.jobId,
     pending |-> job.status = "pending", count |-> Len(job.events),
     events |-> job.events]

listCalendarEvents(args, getItemsThrows) ==
    /\ LET range == makeTimedRange(args.start, args.end)
           err == IF args.start = <<>> \/ args.end = <<>>
                  THEN "Missing required fields: start, end"
                  ELSE IF ListTarget(args) = NoCalendar THEN "Calendar not found"
                  ELSE IF range.kind = "null" THEN "Invalid datetime format"
                  ELSE IF range.kind = "error" THEN "end must be after start"
                  ELSE ""
           job == startGetItemsJob(calendarJobSeq, Calendars[ListTarget(args)].id,
                                   range, "range", getItemsThrows)
       IN IF err # ""
          THEN /\ ~getItemsThrows
               /\ response' = [NoResponse EXCEPT !.kind = "error", !.error = err]
               /\ UNCHANGED <<calendarJobSeq, calendarJobs>>
          ELSE /\ calendarJobSeq < MaxJobs
               /\ calendarJobSeq' = calendarJobSeq + 1
               /\ calendarJobs' = Append(calendarJobs, job)
               /\ response' = StartedResponse(job)
    /\ UNCHANGED <<server, exchange, bridge, now, workflowSeq, workflowJobs, idempotency, pc, locals, effects,
                   stepTrace, store, bulk>>

listEventsOnDate(args, getItemsThrows) ==
    /\ LET range == makeAllDayRange(args.date)
           err == IF args.date = <<>> THEN "Missing required field: date"
                  ELSE IF ListTarget(args) = NoCalendar THEN "Calendar not found"
                  ELSE IF range.kind = "null" THEN "Invalid date format"
                  ELSE ""
           job == startGetItemsJob(calendarJobSeq, Calendars[ListTarget(args)].id,
                                   range, "date", getItemsThrows)
       IN IF err # ""
          THEN /\ ~getItemsThrows
               /\ response' = [NoResponse EXCEPT !.kind = "error", !.error = err]
               /\ UNCHANGED <<calendarJobSeq, calendarJobs>>
          ELSE /\ calendarJobSeq < MaxJobs
               /\ calendarJobSeq' = calendarJobSeq + 1
               /\ calendarJobs' = Append(calendarJobs, job)
               /\ response' = StartedResponse(job)
    /\ UNCHANGED <<server, exchange, bridge, now, workflowSeq, workflowJobs, idempotency, pc, locals, effects,
                   stepTrace, store, bulk>>

\* the events the provider has not reported to a query job yet
Undelivered(job) ==
    LET listing == ItemsInRange(store, job.meta.calendar, job.meta.range)
    IN SubSeq(listing, Len(job.events) + 1, Len(listing))

\* listener.onGetResult(..., count, items) of a query job: the provider
\* reports the next count events; the listener does not look at job.status
OnGetResult(j, count) ==
    /\ calendarJobs[j].kind = "getItems"
    /\ count <= Len(Undelivered(calendarJobs[j]))
    /\ calendarJobs' = [calendarJobs EXCEPT ![j].events =
           AppendBatch(@, SubSeq(Undelivered(calendarJobs[j]), 1, count))]
    /\ UNCHANGED <<server, exchange, bridge, now, workflowSeq, workflowJobs, idempotency, calendarJobSeq, pc,
                   locals, effects, stepTrace, response, store, bulk>>

\* listener.onOperationComplete() of a query job: job.status = "done",
\* whatever the status was
OnGetItemsComplete(j) ==
    /\ calendarJobs[j].kind = "getItems"
    /\ calendarJobs' = [calendarJobs EXCEPT ![j].status = "done"]
    /\ UNCHANGED <<server, exchange, bridge, now, workflowSeq, workflowJobs, idempotency, calendarJobSeq, pc,
                   locals, effects, stepTrace, response, store, bulk>>

----------------------------------------------------------------------------
(* start(): the module flags and the HTTP server; the handler of "/" *)

MCP_PORT == 8766

NoStartResult ==
    [success |-> FALSE, port |-> 0, alreadyStarted |-> FALSE, starting |-> FALSE,
     error |-> ""]

\* the module after loading: _serverStarted = false, _serverStarting = false,
\* _serverPort = null (0); servers counts the HttpServer objects listening,
\* calls and failures the calls of start() and those that threw
NotStarted ==
    [started |-> FALSE, starting |-> FALSE, port |-> 0, servers |-> 0,
     calls |-> 0, failures |-> 0, result |-> NoStartResult]

\* what a call of start() meets: every import and server.start succeed, an
\* import throws, or server.start throws (the port is taken)
StartOutcomes == {"ok", "importThrows", "startThrows"}

\* a start() whose catch block leaves _serverStarting set
startKeepsStarting(outcome) ==
    /\ server.calls < MaxStartCalls
    /\ IF server.started
       THEN server' = [server EXCEPT !.calls = @ + 1,
                !.result = [NoStartResult EXCEPT !.success = TRUE,
                               !.port = IF server.port # 0 THEN server.port ELSE MCP_PORT,
                               !.alreadyStarted = TRUE]]
       ELSE IF server.starting
       THEN server' = [server EXCEPT !.calls = @ + 1,
                !.result = [NoStartResult EXCEPT !.success = TRUE,
                               !.port = IF server.port # 0 THEN server.port ELSE MCP_PORT,
                               !.starting = TRUE]]
       ELSE IF outcome = "ok"
       THEN server' = [server EXCEPT !.calls = @ + 1, !.started = TRUE,
                !.starting = FALSE, !.port = MCP_PORT, !.servers = @ + 1,
                !.result = [NoStartResult EXCEPT !.success = TRUE, !.port = MCP_PORT]]
       ELSE server' = [server EXCEPT !.calls = @ + 1, !.starting = TRUE,
                !.failures = @ + 1,
                !.result = [NoStartResult EXCEPT !.error = outcome]]
    /\ UNCHANGED <<exchange, bridge, now, workflowSeq, workflowJobs, idempotency,
                   calendarJobSeq, calendarJobs, pc, locals, effects, stepTrace,
                   response, store, bulk>>

\* one call of start(); the function has no await, so the call runs to its
\* return before any other call or request is served
start(outcome) ==
    /\ server.calls < MaxStartCalls
    /\ IF server.started
       THEN server' = [server EXCEPT !.calls = @ + 1,
                !.result = [NoStartResult EXCEPT !.success = TRUE,
                               !.port = IF server.port # 0 THEN server.port ELSE MCP_PORT,
                               !.alreadyStarted = TRUE]]
       ELSE IF server.starting
       THEN server' = [server EXCEPT !.calls = @ + 1,
                !.result = [NoStartResult EXCEPT !.success = TRUE,
                               !.port = IF server.port # 0 THEN server.port ELSE MCP_PORT,
                               !.starting = TRUE]]
       ELSE IF outcome = "ok"
       THEN server' = [server EXCEPT !.calls = @ + 1, !.started = TRUE,
                !.starting = FALSE, !.port = MCP_PORT, !.servers = @ + 1,
                !.result = [NoStartResult EXCEPT !.success = TRUE, !.port = MCP_PORT]]
       ELSE server' = [server EXCEPT !.calls = @ + 1, !.starting = FALSE,
                !.failures = @ + 1,
                !.result = [NoStartResult EXCEPT !.error = outcome]]
    /\ UNCHANGED <<exchange, bridge, now, workflowSeq, workflowJobs, idempotency,
                   calendarJobSeq, calendarJobs, pc, locals, effects, stepTrace,
                   response, store, bulk>>

\* no request: nothing written, res.finish() not called
NoExchange ==
    [pc |-> "idle", count |-> 0, status |-> 0, finished |-> 0, hasResult |-> FALSE,
     errors |-> <<>>, text |-> "", tool |-> ""]

\* request bodies: not JSON, the JSON value null, a JSON number, and JSON-RPC
\* messages (name is the tool of a tools/call)
Bodies ==
    {[json |-> "invalid", method |-> "", name |-> ""],
     [json |-> "null", method |-> "", name |-> ""],
     [json |-> "number", method |-> "", name |-> ""],
     [json |-> "object", method |-> "tools/list", name |-> ""],
     [json |-> "object", method |-> "resources/list", name |-> ""],
     [json |-> "object", method |-> "tools/call", name |-> "listCalendars"],
     [json |-> "object", method |-> "tools/call", name |-> "noSuchTool"]}

ToolNames == {"listCalendars"}

\* res.write(...); res.finish() with the status line and the payload
Finish(status, hasResult, errors, text) ==
    exchange' = [exchange EXCEPT !.pc = "done", !.status = status,
                                 !.finished = @ + 1, !.hasResult = hasResult,
                                 !.errors = errors, !.text = text]

\* the handler registered for "/", up to the first await of its async block
handleRequest(method, body) ==
    /\ server.started
    /\ exchange.pc \in {"idle", "done"} /\ exchange.count < MaxRequests
    /\ LET fresh == [NoExchange EXCEPT !.count = exchange.count + 1]
       IN CASE method # "POST" ->
                 exchange' = [fresh EXCEPT !.pc = "done", !.status = 405,
                                  !.finished = 1, !.text = "POST only"]
            [] method = "POST" /\ body.json = "invalid" ->
                 exchange' = [fresh EXCEPT !.pc = "done", !.status = 400,
                                  !.finished = 1, !.text = "Invalid JSON"]
            [] method = "POST" /\ body.json = "null" ->
                 \* message.id throws a TypeError outside every try block
                 exchange' = [fresh EXCEPT !.pc = "done", !.text = "TypeError"]
            [] method = "POST" /\ body.json \in {"number", "object"}
                               /\ body.method = "tools/list" ->
                 exchange' = [fresh EXCEPT !.pc = "done", !.status = 200,
                                  !.finished = 1, !.hasResult = TRUE]
            [] method = "POST" /\ body.json \in {"number", "object"}
                               /\ body.method = "tools/call" ->
                 exchange' = [fresh EXCEPT !.pc = "callTool", !.tool = body.name]
            [] OTHER ->
                 exchange' = [fresh EXCEPT !.pc = "done", !.status = 200,
                                  !.finished = 1,
                                  !.errors = <<"Unknown method: " \o body.method>>]
    /\ UNCHANGED <<server, bridge, now, workflowSeq, workflowJobs, idempotency,
                   calendarJobSeq, calendarJobs, pc, locals, effects, stepTrace,
                   response, store, bulk>>

\* await callTool(toolName, args) ends: the tool returned, or it threw (an
\* unknown tool always does); reply or replyError finishes the response
ToolSettles(returns) ==
    /\ exchange.pc = "callTool"
    /\ returns => exchange.tool \in ToolNames
    /\ IF returns
       THEN Finish(200, TRUE, <<>>, "")
       ELSE Finish(200, FALSE,
                   << IF exchange.tool \in ToolNames THEN "Error: tool failed"
                      ELSE "Error: Unknown tool: " \o exchange.tool >>, "")
    /\ UNCHANGED <<server, bridge, now, workflowSeq, workflowJobs, idempotency,
                   calendarJobSeq, calendarJobs, pc, locals, effects, stepTrace,
                   response, store, bulk>>

----------------------------------------------------------------------------
(* mcp-bridge.cjs: stdin lines to HTTP requests, responses to stdout lines *)

\* the text on stdin, token by token: a JSON-RPC message without an id, one
\* with id 1, the JSON text null, text that is no JSON, a blank, a newline
StdinTokens == {"obj", "obj1", "null", "x", " ", "\n"}

\* let buffer = ""; nothing read, nothing in flight, nothing written; read is
\* everything the data events have delivered so far
IdleBridge ==
    [read |-> <<>>, buffer |-> <<>>, inflight |-> <<>>, stdout |-> <<>>,
     crashed |-> FALSE]

\* JSON.parse(line): the value, or a SyntaxError; id 0 stands for a missing id
JsonParse(line) ==
    CASE line = <<"obj">> -> [ok |-> TRUE, isNull |-> FALSE, id |-> 0]
      [] line = <<"obj1">> -> [ok |-> TRUE, isNull |-> FALSE, id |-> 1]
      [] line = <<"null">> -> [ok |-> TRUE, isNull |-> TRUE, id |-> 0]
      [] OTHER -> [ok |-> FALSE, isNull |-> FALSE, id |-> 0]

\* buffer.indexOf("\n"), counted from 1; 0 when there is none
IndexOfNewline(buf) ==
    IF \E i \in 1..Len(buf) : buf[i] = "\n"
    THEN CHOOSE i \in 1..Len(buf) : buf[i] = "\n" /\ \A j \in 1..(i - 1) : buf[j] # "\n"
    ELSE 0

\* the while loop of the data handler: take the lines off the buffer, skip the
\* blank ones, write the parse error of a line that is no JSON, post the others
RECURSIVE Drain(_)
Drain(b) ==
    LET idx == IndexOfNewline(b.buffer)
        line == Trim(SubSeq(b.buffer, 1, idx - 1))
        rest == [b EXCEPT !.buffer = SubSeq(b.buffer, idx + 1, Len(b.buffer))]
        msg == JsonParse(line)
    IN IF idx = 0 THEN b
       ELSE IF line = <<>> THEN Drain(rest)
       ELSE IF ~msg.ok
            THEN Drain([rest EXCEPT !.stdout =
                           Append(@, [kind |-> "parseError", code |-> -32700, id |-> 0])])
            ELSE Drain([rest EXCEPT !.inflight = Append(@, msg)])

\* process.stdin.on("data", chunk): buffer += chunk, then the loop
StdinData(chunk) ==
    /\ ~bridge.crashed
    /\ Len(bridge.read) + Len(chunk) <= MaxInput
    /\ bridge' = Drain([bridge EXCEPT !.read = @ \o chunk, !.buffer = @ \o chunk])
    /\ UNCHANGED <<server, exchange, now, workflowSeq, workflowJobs, idempotency,
                   calendarJobSeq, calendarJobs, pc, locals, effects, stepTrace,
                   response, store, bulk>>

RemoveAt(seq, k) == SubSeq(seq, 1, k - 1) \o SubSeq(seq, k + 1, Len(seq))

\* the promise of postJson(msg) settles: resolved with the parsed response of
\* the extension, or rejected (request error, or a body that is no JSON); the
\* catch handler reads msg.id, which throws when msg is null: nothing is
\* written, and the rejection is unhandled (Node may end the process)
HttpSettles(k, resolved, exits) ==
    /\ ~bridge.crashed
    /\ k \in 1..Len(bridge.inflight)
    /\ LET msg == bridge.inflight[k]
           b == [bridge EXCEPT !.inflight = RemoveAt(@, k)]
       IN IF resolved
          THEN /\ ~exits
               /\ bridge' = [b EXCEPT !.stdout =
                      Append(@, [kind |-> "response", code |-> 0, id |-> msg.id])]
          ELSE IF msg.isNull
               THEN bridge' = [b EXCEPT !.crashed = exits]
               ELSE /\ ~exits
                    /\ bridge' = [b EXCEPT !.stdout =
                           Append(@, [kind |-> "httpError", code |-> -32000,
                                      id |-> msg.id])]
    /\ UNCHANGED <<server, exchange, now, workflowSeq, workflowJobs, idempotency,
                   calendarJobSeq, calendarJobs, pc, locals, effects, stepTrace,
                   response, store, bulk>>

----------------------------------------------------------------------------
(* Polls: getWorkflowJob and getCalendarJob *)

\* a poll that leaves its mark on the record it reads
getWorkflowJobTouching(jobId) ==
    /\ response' = [kind |-> "workflowJob", error |-> "", jobId |-> jobId]
    /\ workflowJobs' = [w \in 1..Len(workflowJobs) |->
                           IF workflowJobs[w].jobId = jobId
                           THEN [workflowJobs[w] EXCEPT !.step = "polled"]
                           ELSE workflowJobs[w]]
    /\ UNCHANGED <<server, exchange, bridge, now, workflowSeq, idempotency, calendarJobSeq, calendarJobs, pc,
                   locals, effects, stepTrace, store, bulk>>

getWorkflowJob(jobId) ==
    /\ response' =
           IF \E w \in 1..Len(workflowJobs) : workflowJobs[w].jobId = jobId
           THEN LET job == workflowJobs[CHOOSE w \in 1..Len(workflowJobs) :
                                            workflowJobs[w].jobId = jobId]
                IN [kind |-> "workflowJob", error |-> job.error, jobId |-> job.jobId,
                    status |-> job.status, step |-> job.step, meta |-> job.meta,
                    result |-> job.result]
           ELSE [NoResponse EXCEPT !.kind = "error", !.error = "Unknown workflow jobId"]
    /\ UNCHANGED <<server, exchange, bridge, now, workflowSeq, workflowJobs, idempotency, calendarJobSeq,
                   calendarJobs, pc, locals, effects, stepTrace, store, bulk>>

\* a poll that keeps answering pending for every job it knows
getCalendarJobAlwaysPending(jobId) ==
    /\ response' =
           IF \E j \in 1..Len(calendarJobs) : calendarJobs[j].jobId = jobId
           THEN [kind |-> "calendarJob", error |-> "", jobId |-> jobId,
                 status |-> "pending", count |-> 0, events |-> <<>>]
           ELSE [NoResponse EXCEPT !.kind = "error", !.error = "Unknown jobId"]
    /\ UNCHANGED <<server, exchange, bridge, now, workflowSeq, workflowJobs, idempotency, calendarJobSeq,
                   calendarJobs, pc, locals, effects, stepTrace, store, bulk>>

getCalendarJob(jobId) ==
    /\ response' =
           IF \E j \in 1..Len(calendarJobs) : calendarJobs[j].jobId = jobId
           THEN LET job == calendarJobs[CHOOSE j \in 1..Len(calendarJobs) :
                                            calendarJobs[j].jobId = jobId]
                IN [kind |-> "calendarJob", error |-> job.error, jobId |-> job.jobId,
                    status |-> job.status, count |-> Len(job.events),
                    events |-> job.events]
           ELSE [NoResponse EXCEPT !.kind = "error", !.error = "Unknown jobId"]
    /\ UNCHANGED <<server, exchange, bridge, now, workflowSeq, workflowJobs, idempotency, calendarJobSeq,
                   calendarJobs, pc, locals, effects, stepTrace, store, bulk>>

\* the ids a client polls: issued ones and ones that were never issued
PollIds ==
    {<<"wfjob", n>> : n \in 1..(workflowSeq + 1)}
        \cup {<<"caljob", n>> : n \in 1..(calendarJobSeq + 1)}

----------------------------------------------------------------------------
Init ==
    /\ now = TickMs
    /\ workflowSeq = 0
    /\ workflowJobs = <<>>
    /\ idempotency = <<>>
    /\ calendarJobSeq = 0
    /\ calendarJobs = <<>>
    /\ pc = <<>>
    /\ locals = <<>>
    /\ effects = <<>>
    /\ stepTrace = <<>>
    /\ response = NoResponse
    /\ store = InitialStore
    /\ bulk = IdleCall
    /\ server = NotStarted
    /\ exchange = NoExchange
    /\ bridge = IdleBridge

Next ==
    \/ \E args \in Requests : syncAndCreateCalendarEvent(args)
    \/ \E w \in 1..workflowSeq : \E active \in BOOLEAN : PreSyncReturns(w, active)
    \/ \E w \in 1..workflowSeq : \E b, a \in BOOLEAN : CreateReturns(w, b, a)
    \/ \E w \in 1..workflowSeq : \E active \in BOOLEAN : PostSyncReturns(w, active)
    \/ \E w \in 1..workflowSeq : \E active \in BOOLEAN : PostSync2Returns(w, active)
    \/ \E j \in 1..calendarJobSeq : \E status \in {0, 1} : AddItemComplete(j, status)
    \/ Tick

Spec == Init /\ [][Next]_vars

\* the bulk deletes are explored one tool at a time: the tools share only the
\* store and the latest response
NextSql ==
    \/ \E args \in BulkRequests \cup {NoBulkArgs} : syncAndDeleteEventsBySql(args)
    \/ \E w \in 1..workflowSeq : \E ok \in BOOLEAN : SqlOpened(w, ok)
    \/ \E w \in 1..workflowSeq : \E ok \in BOOLEAN :
          \E outcome \in [1..Cardinality(InitialStore) -> DeleteOutcomes] :
              SqlExecuted(w, ok, outcome)
    \/ \E w \in 1..workflowSeq : \E ok \in BOOLEAN : SqlClosed(w, ok)
    \/ \E w \in 1..workflowSeq : \E active \in BOOLEAN : SqlSyncCallReturns(w, active)
    \/ \E j \in 1..calendarJobSeq : \E status \in {0, 1} : DeleteItemComplete(j, status)

SpecSql == Init /\ [][NextSql]_vars

NextTitleRange ==
    \/ \E args \in BulkRequests \cup {NoBulkArgs} : tbsyncDeleteEasEventsByTitleRange(args)
    \/ \E active \in BOOLEAN : TitleRangeModule(active)
    \/ \E ok \in BOOLEAN : TitleRangeGetTarget(ok)
    \/ \E outcome \in {"array", "notArray", "throws"} : TitleRangeGetAllItems(outcome)
    \/ \E ok \in BOOLEAN : TitleRangeDeleteReturns(ok)
    \/ \E active \in BOOLEAN : TitleRangeSyncReturns(active)

SpecTitleRange == Init /\ [][NextTitleRange]_vars

\* the three kinds of workflow and the polls, with a provider that reports
\* results before it completes and completes at most once per call
NextWorkflows ==
    \/ \E args \in Requests :
          syncAndCreateCalendarEvent(args) /\ workflowSeq' <= MaxBulkWorkflows
    \/ \E w \in 1..workflowSeq : \E active \in BOOLEAN : PreSyncReturns(w, active)
    \/ \E w \in 1..workflowSeq : \E b, a \in BOOLEAN : CreateReturns(w, b, a)
    \/ \E w \in 1..workflowSeq : \E active \in BOOLEAN : PostSyncReturns(w, active)
    \/ \E w \in 1..workflowSeq : \E active \in BOOLEAN : PostSync2Returns(w, active)
    \/ \E j \in 1..calendarJobSeq : \E status \in {0, 1} : AddItemComplete(j, status)
    \/ \E args \in BulkRequests \cup BadBulkRequests :
          syncAndDeleteEventsBySql(args) /\ workflowSeq' <= MaxBulkWorkflows
    \/ \E w \in 1..workflowSeq : \E ok \in BOOLEAN : SqlOpened(w, ok)
    \/ \E w \in 1..workflowSeq : \E ok \in BOOLEAN :
          \E outcome \in [1..Cardinality(InitialStore) -> DeleteOutcomes] :
              SqlExecuted(w, ok, outcome)
    \/ \E w \in 1..workflowSeq : \E ok \in BOOLEAN : SqlClosed(w, ok)
    \/ \E w \in 1..workflowSeq : \E active \in BOOLEAN : SqlSyncCallReturns(w, active)
    \/ \E args \in BulkRequests \cup BadBulkRequests : \E getItemsThrows \in BOOLEAN :
          syncAndDeleteEventsByTitle(args, getItemsThrows)
              /\ workflowSeq' <= MaxBulkWorkflows
    \/ \E w \in 1..workflowSeq : \E count \in 1..2 :
          \E outcome \in [1..2 -> {"accepted", "deleteThrows"}] :
              TitleOnGetResult(w, count, outcome)
    \/ \E w \in 1..workflowSeq : TitleOnOperationComplete(w)
    \/ \E w \in 1..workflowSeq : \E active \in BOOLEAN : TitleSyncCallReturns(w, active)
    \/ \E j \in 1..calendarJobSeq : \E status \in {0, 1} : DeleteItemComplete(j, status)
    \/ \E jobId \in PollIds : getWorkflowJob(jobId)
    \/ \E jobId \in PollIds : getCalendarJob(jobId)

SpecWorkflows == Init /\ [][NextWorkflows]_vars

\* query jobs and their polls, with a provider that may report and complete
\* at any time
NextJobs ==
    \/ \E args \in ListRequests : \E getItemsThrows \in BOOLEAN :
          listCalendarEvents(args, getItemsThrows)
    \/ \E args \in ListRequests : \E getItemsThrows \in BOOLEAN :
          listEventsOnDate(args, getItemsThrows)
    \/ \E j \in 1..calendarJobSeq : \E count \in 1..2 : OnGetResult(j, count)
    \/ \E j \in 1..calendarJobSeq : OnGetItemsComplete(j)
    \/ \E jobId \in PollIds : getCalendarJob(jobId)

SpecJobs == Init /\ [][NextJobs]_vars

\* the workflows while TbSync is not installed or not active: every call of
\* getTbSyncModule throws
NextNoTbSync ==
    \/ \E args \in Requests :
          syncAndCreateCalendarEvent(args) /\ workflowSeq' <= MaxBulkWorkflows
    \/ \E w \in 1..workflowSeq : PreSyncReturns(w, FALSE)
    \/ \E args \in BulkRequests :
          syncAndDeleteEventsBySql(args) /\ workflowSeq' <= MaxBulkWorkflows
    \/ \E w \in 1..workflowSeq : \E ok \in BOOLEAN : SqlOpened(w, ok)
    \/ \E w \in 1..workflowSeq : \E ok \in BOOLEAN :
          \E outcome \in [1..Cardinality(InitialStore) -> DeleteOutcomes] :
              SqlExecuted(w, ok, outcome)
    \/ \E w \in 1..workflowSeq : \E ok \in BOOLEAN : SqlClosed(w, ok)
    \/ \E w \in 1..workflowSeq : SqlSyncCallReturns(w, FALSE)
    \/ \E j \in 1..calendarJobSeq : \E status \in {0, 1} : DeleteItemComplete(j, status)

SpecNoTbSync == Init /\ [][NextNoTbSync]_vars

\* add and delete jobs, the completions the provider delivers for them, and
\* the polls
NextCallbacks ==
    \/ \E args \in {ReqDentist, ReqBadDate} : \E addThrows \in BOOLEAN :
          createCalendarEvent(args, FALSE, addThrows)
    \/ \E args \in {BulkB} :
          syncAndDeleteEventsBySql(args) /\ workflowSeq' <= MaxBulkWorkflows
    \/ \E w \in 1..workflowSeq : SqlOpened(w, TRUE)
    \/ \E w \in 1..workflowSeq :
          SqlExecuted(w, TRUE, [i \in 1..Cardinality(InitialStore) |-> "accepted"])
    \/ \E w \in 1..workflowSeq : SqlClosed(w, TRUE)
    \/ \E w \in 1..workflowSeq : SqlSyncCallReturns(w, TRUE)
    \/ \E j \in 1..calendarJobSeq : \E status \in Statuses : AddItemComplete(j, status)
    \/ \E j \in 1..calendarJobSeq : \E status \in Statuses : DeleteItemComplete(j, status)
    \/ \E jobId \in PollIds : getCalendarJob(jobId)

SpecCallbacks == Init /\ [][NextCallbacks]_vars

\* one workflow of either kind, with its timers and the continuations of its
\* awaits scheduled fairly; the provider owes no completion of addItem or
\* deleteItem, and the post-syncs that nobody awaits owe nothing either
NextProgress ==
    \/ \E args \in {ReqDentist, ReqNoAccount} :
          syncAndCreateCalendarEvent(args) /\ workflowSeq' <= MaxBulkWorkflows
    \/ \E w \in 1..workflowSeq : \E active \in BOOLEAN : PreSyncReturns(w, active)
    \/ \E w \in 1..workflowSeq : \E b, a \in BOOLEAN : CreateReturns(w, b, a)
    \/ \E w \in 1..workflowSeq : \E active \in BOOLEAN : PostSyncReturns(w, active)
    \/ \E w \in 1..workflowSeq : \E active \in BOOLEAN : PostSync2Returns(w, active)
    \/ \E j \in 1..calendarJobSeq : \E status \in {0, 1} : AddItemComplete(j, status)
    \/ \E args \in {BulkB, BulkAB} :
          syncAndDeleteEventsBySql(args) /\ workflowSeq' <= MaxBulkWorkflows
    \/ \E w \in 1..workflowSeq : \E ok \in BOOLEAN : SqlOpened(w, ok)
    \/ \E w \in 1..workflowSeq : \E ok \in BOOLEAN :
          \E outcome \in [1..Cardinality(InitialStore) -> DeleteOutcomes] :
              SqlExecuted(w, ok, outcome)
    \/ \E w \in 1..workflowSeq : \E ok \in BOOLEAN : SqlClosed(w, ok)
    \/ \E w \in 1..workflowSeq : \E active \in BOOLEAN : SqlSyncCallReturns(w, active)
    \/ \E j \in 1..calendarJobSeq : \E status \in {0, 1} : DeleteItemComplete(j, status)

\* every await of a workflow's background function is on a timer (sleepMs), on
\* getTbSyncModule or on the store connection: its continuation runs
Continuations ==
    /\ WF_vars(\E w \in 1..workflowSeq : \E active \in BOOLEAN : PreSyncReturns(w, active))
    /\ WF_vars(\E w \in 1..workflowSeq : \E b, a \in BOOLEAN : CreateReturns(w, b, a))
    /\ WF_vars(\E w \in 1..workflowSeq : \E active \in BOOLEAN : PostSyncReturns(w, active))
    /\ WF_vars(\E w \in 1..workflowSeq : \E active \in BOOLEAN : PostSync2Returns(w, active))
    /\ WF_vars(\E w \in 1..workflowSeq : \E ok \in BOOLEAN : SqlOpened(w, ok))
    /\ WF_vars(\E w \in 1..workflowSeq : \E ok \in BOOLEAN :
                  \E outcome \in [1..Cardinality(InitialStore) -> DeleteOutcomes] :
                      SqlExecuted(w, ok, outcome))
    /\ WF_vars(\E w \in 1..workflowSeq : \E ok \in BOOLEAN : SqlClosed(w, ok))

SpecProgress == Init /\ [][NextProgress]_vars /\ Continuations

\* requests that are close to one another, with TbSync active and a provider
\* that accepts every event
NextKeys ==
    \/ \E args \in KeyRequests : syncAndCreateCalendarEvent(args)
    \/ \E w \in 1..workflowSeq : PreSyncReturns(w, TRUE)
    \/ \E w \in 1..workflowSeq : CreateReturns(w, FALSE, FALSE)
    \/ \E w \in 1..workflowSeq : PostSyncReturns(w, TRUE)
    \/ \E w \in 1..workflowSeq : PostSync2Returns(w, TRUE)

SpecKeys == Init /\ [][NextKeys]_vars

\* events created by the tool and by the workflow, with and without mcpTag
NextTags ==
    \/ \E args \in TagRequests : \E addThrows \in BOOLEAN :
          createCalendarEvent(args, FALSE, addThrows)
    \/ \E args \in TagRequests : syncAndCreateCalendarEvent(args)
    \/ \E w \in 1..workflowSeq : PreSyncReturns(w, TRUE)
    \/ \E w \in 1..workflowSeq : CreateReturns(w, FALSE, FALSE)
    \/ \E j \in 1..calendarJobSeq : \E status \in {0, 1} : AddItemComplete(j, status)

SpecTags == Init /\ [][NextTags]_vars

\* the sync tool, called with every email, TbSync enabled or not
NextSync ==
    \E userEmail \in UserEmails : \E active \in BOOLEAN :
        tbsyncSyncAccountByUserTool(userEmail, active)

SpecSync == Init /\ [][NextSync]_vars

\* the four candidate queries: the three one-call tools with every outcome of
\* their awaits, and the bulk workflow up to its terminal status
NextQueries ==
    \/ \E args \in {BulkB, BulkBadWindow} : tbsyncDeleteEasEventsBySqlChangelog(args)
    \/ \E args \in {BulkB, BulkBadWindow} : tbsyncDeleteEasEventsNativeBySql(args)
    \/ \E args \in ModifyRequests : tbsyncModifyEasEventsBySql(args)
    \/ \E active \in BOOLEAN : QueryModule(active)
    \/ \E ok \in BOOLEAN : QueryOpened(ok)
    \/ \E ok \in BOOLEAN : QueryExecuted(ok)
    \/ \E ok \in BOOLEAN : QueryClosed(ok)
    \/ \E ok \in BOOLEAN : QueryGetTarget(ok)
    \/ \E outcome \in GetItemOutcomes : QueryGetItemReturns(outcome)
    \/ \E ok \in BOOLEAN : QueryWriteReturns(ok)
    \/ TitleRangeSyncReturns(TRUE)
    \/ /\ syncAndDeleteEventsBySql(BulkB)
       /\ workflowSeq' <= MaxQueryWorkflows
    \/ \E w \in 1..workflowSeq : \E ok \in BOOLEAN : SqlOpened(w, ok)
    \/ \E w \in 1..workflowSeq : \E ok \in BOOLEAN :
          SqlExecuted(w, ok, [i \in 1..Cardinality(InitialStore) |-> "accepted"])
    \/ \E w \in 1..workflowSeq : \E ok \in BOOLEAN : SqlClosed(w, ok)

SpecQueries == Init /\ [][NextQueries]_vars

\* one call of tbsyncDeleteEasEventsNativeBySql at a time
NextNative ==
    \/ \E args \in {BulkB, BulkBadWindow} : tbsyncDeleteEasEventsNativeBySql(args)
    \/ \E active \in BOOLEAN : QueryModule(active)
    \/ \E ok \in BOOLEAN : QueryOpened(ok)
    \/ \E ok \in BOOLEAN : QueryExecuted(ok)
    \/ \E ok \in BOOLEAN : QueryClosed(ok)
    \/ \E ok \in BOOLEAN : QueryGetTarget(ok)
    \/ \E outcome \in GetItemOutcomes : QueryGetItemReturns(outcome)
    \/ \E ok \in BOOLEAN : QueryWriteReturns(ok)
    \/ \E active \in BOOLEAN : TitleRangeSyncReturns(active)

\* awaits that end by themselves: the TbSync module import, the Sqlite calls,
\* the folder's target, and getItem, which timeoutAfter(3000) ends at the
\* latest; nothing ends the await on deleteItem but the provider
NativeContinuations ==
    /\ WF_vars(\E active \in BOOLEAN : QueryModule(active))
    /\ WF_vars(\E ok \in BOOLEAN : QueryOpened(ok))
    /\ WF_vars(\E ok \in BOOLEAN : QueryExecuted(ok))
    /\ WF_vars(\E ok \in BOOLEAN : QueryClosed(ok))
    /\ WF_vars(\E ok \in BOOLEAN : QueryGetTarget(ok))
    /\ WF_vars(\E outcome \in GetItemOutcomes : QueryGetItemReturns(outcome))

SpecNative == Init /\ [][NextNative]_vars /\ NativeContinuations

\* the background script calls start() on onInstalled and onStartup; clients
\* send requests to the started server
NextServer ==
    \/ \E outcome \in StartOutcomes : start(outcome)
    \/ \E method \in {"GET", "POST"} : \E body \in Bodies : handleRequest(method, body)
    \/ \E returns \in BOOLEAN : ToolSettles(returns)

SpecServer == Init /\ [][NextServer]_vars

Chunks == UNION {[1..n -> StdinTokens] : n \in 1..MaxChunk}

\* the bridge process: data events of any size, HTTP calls settling in any order
NextBridge ==
    \/ \E chunk \in Chunks : StdinData(chunk)
    \/ \E k \in 1..Len(bridge.inflight) : \E resolved, exits \in BOOLEAN :
          HttpSettles(k, resolved, exits)

SpecBridge == Init /\ [][NextBridge]_vars

----------------------------------------------------------------------------
(* Properties of syncAndCreateCalendarEvent *)

CreateWorkflows == {w \in 1..workflowSeq : IsCreateWf(w)}

IsPrefix(a, b) == Len(a) <= Len(b) /\ SubSeq(b, 1, Len(a)) = a

Front(t) == SubSeq(t, 1, Len(t) - 1)

C2_AtMostOneRunningPerFingerprint ==
    \A w1, w2 \in CreateWorkflows :
        ( /\ workflowJobs[w1].status = "running"
          /\ workflowJobs[w2].status = "running"
          /\ workflowJobs[w1].meta.idempotencyKey = workflowJobs[w2].meta.idempotencyKey )
        => w1 = w2

\* C3: addItem is issued only after a sync trigger, and a workflow that is
\* done has issued a sync trigger after its addItem
C3_WriteBetweenSyncs ==
    \A w \in CreateWorkflows :
        LET e == effects[w]
        IN \A i \in 1..Len(e) :
              e[i] = "addItem" =>
                  /\ \E j \in 1..(i - 1) : e[j] = "sync"
                  /\ workflowJobs[w].status = "done" =>
                         \E j \in (i + 1)..Len(e) : e[j] = "sync"

\* C4: a workflow whose pre-sync returned an error result never calls
\* createCalendarEvent or addItem and ends in error with the pre-sync error
C4_PreSyncFailureAborts ==
    \A w \in CreateWorkflows :
        locals[w].pre.kind = "error" =>
            /\ locals[w].created.kind = "unset"
            /\ \A i \in 1..Len(effects[w]) : effects[w][i] # "addItem"
            /\ pc[w] = "end" =>
                   /\ workflowJobs[w].status = "error"
                   /\ workflowJobs[w].error = locals[w].pre.error

\* C5 (as amended): the values assigned to a workflow's step are start,
\* preSync, create, postSync, done in this order, or a prefix of this sequence
\* that reaches preSync and stops before done, followed by error; the record's
\* step is the last of them
C5_StepSequence ==
    \A w \in CreateWorkflows :
        LET t == stepTrace[w]
        IN /\ workflowJobs[w].step = t[Len(t)]
           /\ \/ /\ IsPrefix(t, <<"start", "preSync", "create", "postSync", "done">>)
                 /\ Len(t) >= 2
              \/ /\ t[Len(t)] = "error"
                 /\ IsPrefix(Front(t), <<"start", "preSync", "create", "postSync">>)
                 /\ Len(t) >= 3
           /\ workflowJobs[w].status = "done" <=> t[Len(t)] = "done"
           /\ workflowJobs[w].status = "error" <=> t[Len(t)] = "error"

\* a workflow went through the whole sequence, and another stopped in error
\* after its create step
C5_Witness ==
    /\ \E w \in CreateWorkflows :
          stepTrace[w] = <<"start", "preSync", "create", "postSync", "done">>
    /\ \E w \in CreateWorkflows :
          stepTrace[w] = <<"start", "preSync", "create", "error">>

\* the labels of a trace, without the bookkeeping values start and done
Labels(t) == SelectSeq(t, LAMBDA x : x \notin {"start", "done"})

\* C5 (as stated): the labels are preSync, mutate (create), postSync, postSync2,
\* or a strict prefix of this sequence ending in error
C5_FourLabels ==
    \A w \in CreateWorkflows :
        LET t == Labels(stepTrace[w])
            full == <<"preSync", "create", "postSync", "postSync2">>
        IN IF pc[w] = "end"
           THEN \/ t = full
                \/ /\ t[Len(t)] = "error"
                   /\ IsPrefix(Front(t), full) /\ Len(Front(t)) < Len(full)
           ELSE IsPrefix(t, full)

----------------------------------------------------------------------------
(* Properties of the bulk deletes *)

BlankFilter(needles) == Keywords(needles) = <<>>

\* C6: a bulk delete called with an empty titleMustContainAll list (or only
\* blank strings) is refused: no workflow carries such a filter and no delete
\* is dispatched for one
C6_EmptyFilterRejected ==
    \A w \in SqlWorkflows :
        ~BlankFilter(workflowJobs[w].meta.titleMustContainAll)

\* the items of the call's calendar that pass both tests of the item loop, in
\* the order of the listing the call took
MatchingOfCall(b) ==
    SelectSeq(b.items, LAMBDA id : Matches(id, b.args.titleMustContainAll, b.range))

\* C7: when a title-range delete has returned its counters, every matching
\* item of the listing it took has been attempted, whatever the other
\* deletes did
C7_EveryMatchAttempted ==
    (bulk.returned /\ bulk.pc = "idle") => bulk.attempted = MatchingOfCall(bulk)

SqlJobsOf(w) == {j \in 1..calendarJobSeq : calendarJobs[j].owner = w
                                           /\ calendarJobs[j].kind = "deleteItem"}

\* C8: in a finished sql delete workflow whose provider deletes have all
\* completed, deleteTriggered counts only the candidates whose delete
\* succeeded and candidateCount = deleteTriggered + deleteErrors
C8_CountsAddUp ==
    \A w \in SqlWorkflows :
        ( /\ workflowJobs[w].status = "done"
          /\ \A j \in SqlJobsOf(w) : calendarJobs[j].status # "pending" )
        => /\ workflowJobs[w].result.deleteTriggered =
                 Cardinality({j \in SqlJobsOf(w) : calendarJobs[j].status = "done"})
           /\ workflowJobs[w].result.candidateCount =
                 workflowJobs[w].result.deleteTriggered
                 + workflowJobs[w].result.deleteErrors

C10_MatchedIsTheMatchCount ==
    \A w \in SqlWorkflows :
        workflowJobs[w].step \in {"delete", "postSync", "done"}
            => workflowJobs[w].result.candidateCount
                   = Cardinality(locals[w].matchingAtQuery)

----------------------------------------------------------------------------
(* Properties of the idempotency cache, of validation and of ids *)

\* C11: a repeated create request whose fingerprint is stored starts a fresh
\* workflow when the entry was written more than the TTL ago and is answered
\* with the stored payload otherwise; an entry leaves the cache only when it
\* has expired and only during a create request, never between requests
C11_ExpiryAtLookup ==
    [][ /\ \A args \in Requests :
              LET k == idempotencyKey(ArgsWithTag(args))
              IN ( /\ syncAndCreateCalendarEvent(args)
                   /\ args.tbsyncUser # <<>>
                   /\ k \in DOMAIN idempotency )
                 => IF now - idempotency[k].ts > 6 * 60 * 60 * 1000
                    THEN /\ response'.kind = "pending"
                         /\ workflowSeq' = workflowSeq + 1
                         /\ workflowJobs'[workflowSeq'].jobId = response'.workflowJobId
                         /\ workflowJobs'[workflowSeq'].status = "running"
                         /\ idempotency'[k].created.pending
                         /\ idempotency'[k].created.workflowJobId = response'.workflowJobId
                         /\ idempotency'[k].ts = now
                    ELSE /\ response'.kind = "alreadyCreated"
                         /\ response'.created = idempotency[k].created
                         /\ workflowSeq' = workflowSeq
                         /\ idempotency'[k] = idempotency[k]
        /\ \A k \in DOMAIN idempotency :
              k \notin DOMAIN idempotency'
                 => /\ now - idempotency[k].ts > 6 * 60 * 60 * 1000
                    /\ \E args \in Requests :
                          args.tbsyncUser # <<>> /\ syncAndCreateCalendarEvent(args) ]_vars

C11_Witness ==
    \E w1, w2 \in CreateWorkflows :
        /\ w1 < w2
        /\ workflowJobs[w1].meta.idempotencyKey = workflowJobs[w2].meta.idempotencyKey
        /\ response.kind = "pending"
        /\ response.workflowJobId = workflowJobs[w2].jobId

\* C12: no idempotency entry with pending = true references a workflow that
\* is no longer running
C12_NoPendingEntryForEndedWorkflow ==
    \A k \in DOMAIN idempotency :
        idempotency[k].created.pending =>
            \E w \in CreateWorkflows :
                /\ workflowJobs[w].jobId = idempotency[k].created.workflowJobId
                /\ workflowJobs[w].status = "running"

\* C13: a create request with a missing or malformed date or time range or
\* with an unknown or read-only calendar registers no workflow
C13_InvalidCreateRegistersNothing ==
    \A w \in CreateWorkflows :
        /\ resolveCalendar(locals[w].args) # NoCalendar
        /\ ~Calendars[resolveCalendar(locals[w].args)].readOnly
        /\ locals[w].args.allDay \in {"true", "false"}
        /\ createRangeError(locals[w].args) = ""

\* C18: workflow ids are pairwise distinct and carry strictly increasing
\* sequence numbers, so do job ids, and no job id is a workflow id
C18_IdsDistinctAndIncreasing ==
    /\ \A i, j \in 1..Len(workflowJobs) :
          i < j => /\ workflowJobs[i].jobId # workflowJobs[j].jobId
                   /\ workflowJobs[i].jobId[2] < workflowJobs[j].jobId[2]
    /\ \A i, j \in 1..Len(calendarJobs) :
          i < j => /\ calendarJobs[i].jobId # calendarJobs[j].jobId
                   /\ calendarJobs[i].jobId[2] < calendarJobs[j].jobId[2]
    /\ \A i \in 1..Len(workflowJobs) : \A j \in 1..Len(calendarJobs) :
          workflowJobs[i].jobId # calendarJobs[j].jobId

C18_Witness ==
    /\ Len(workflowJobs) = 2 /\ Len(calendarJobs) = 2
    /\ workflowSeq = 2 /\ calendarJobSeq = 2

----------------------------------------------------------------------------
(* Properties of the bulk delete requests, of terminal records and of polls *)

\* what the validation of the workflow deletes must refuse
InvalidBulkArgs(args) ==
    \/ args.tbsyncUser = <<>>
    \/ args.start = <<>> \/ args.end = <<>>
    \/ resolveCalendar(args) = NoCalendar
    \/ Calendars[resolveCalendar(args)].readOnly
    \/ makeTimedRange(args.start, args.end).kind # "range"

\* C14: syncAndDeleteEventsBySql and syncAndDeleteEventsByTitle called with a
\* missing tbsyncUser, start or end, an unknown or read-only calendar, a
\* malformed time or an end not after start answer with an error and change
\* neither the workflow table nor the job table nor the store
C14_InvalidBulkRequestRefused ==
    [][ \A args \in BadBulkRequests :
            ( /\ \/ syncAndDeleteEventsBySql(args)
                 \/ \E getItemsThrows \in BOOLEAN :
                        syncAndDeleteEventsByTitle(args, getItemsThrows)
              /\ InvalidBulkArgs(args) )
            => /\ response'.kind = "error" /\ response'.error # ""
               /\ workflowSeq' = workflowSeq /\ workflowJobs' = workflowJobs
               /\ calendarJobSeq' = calendarJobSeq /\ calendarJobs' = calendarJobs
               /\ pc' = pc /\ effects' = effects /\ store' = store ]_vars

C14_Witness ==
    /\ \A args \in BadBulkRequests : InvalidBulkArgs(args)
    /\ response.kind = "error" /\ response.error = "Invalid datetime format"
    /\ workflowSeq = 0 /\ calendarJobSeq = 0 /\ store = InitialStore

\* C17: a workflow record with status done or error never changes again
C17_TerminalRecordFrozen ==
    [][ \A w \in 1..workflowSeq :
            workflowJobs[w].status \in {"done", "error"}
                => workflowJobs'[w] = workflowJobs[w] ]_vars

\* C19: a poll changes neither the job table nor the workflow table nor the
\* idempotency cache; what it returns is the snapshot of the record, before
\* and after the poll, and an id that was never issued gets an Unknown-id
\* error without a record being created
C19_PollsAreReadOnly ==
    [][ \A jobId \in PollIds :
          /\ getWorkflowJob(jobId) =>
                /\ workflowJobs' = workflowJobs /\ calendarJobs' = calendarJobs
                /\ idempotency' = idempotency /\ workflowSeq' = workflowSeq
                /\ calendarJobSeq' = calendarJobSeq
                /\ \A w \in 1..workflowSeq : workflowJobs[w].jobId = jobId =>
                      /\ response'.kind = "workflowJob"
                      /\ response'.status = workflowJobs'[w].status
                      /\ response'.step = workflowJobs'[w].step
                      /\ response'.result = workflowJobs'[w].result
                      /\ response'.error = workflowJobs'[w].error
                /\ (\A w \in 1..workflowSeq : workflowJobs[w].jobId # jobId) =>
                      /\ response'.kind = "error"
                      /\ response'.error = "Unknown workflow jobId"
          /\ getCalendarJob(jobId) =>
                /\ workflowJobs' = workflowJobs /\ calendarJobs' = calendarJobs
                /\ idempotency' = idempotency /\ workflowSeq' = workflowSeq
                /\ calendarJobSeq' = calendarJobSeq
                /\ \A j \in 1..calendarJobSeq : calendarJobs[j].jobId = jobId =>
                      /\ response'.kind = "calendarJob"
                      /\ response'.status = calendarJobs'[j].status
                      /\ response'.events = calendarJobs'[j].events
                      /\ response'.error = calendarJobs'[j].error
                /\ (\A j \in 1..calendarJobSeq : calendarJobs[j].jobId # jobId) =>
                      /\ response'.kind = "error"
                      /\ response'.error = "Unknown jobId" ]_vars

C19_Witness ==
    /\ response.kind = "error" /\ response.error = "Unknown workflow jobId"
    /\ workflowSeq = 1 /\ workflowJobs[1].status = "running"
    /\ calendarJobSeq = 1 /\ calendarJobs[1].status = "pending"

----------------------------------------------------------------------------
(* Properties of the dependency check and of calendar jobs *)

\* C15: while TbSync is not installed or not active, syncAndCreateCalendarEvent
\* and syncAndDeleteEventsBySql answer with an error and create no workflow
\* record, no idempotency entry and no job, and no item is deleted
C15_NothingStartsWithoutTbSync ==
    /\ response.kind \in {"none", "error"}
    /\ workflowSeq = 0 /\ workflowJobs = <<>>
    /\ idempotency = <<>>
    /\ calendarJobSeq = 0 /\ calendarJobs = <<>>
    /\ store = InitialStore

\* C16: a calendar job that has left pending keeps its status, whatever the
\* provider does afterwards
C16_JobStatusSetOnce ==
    [][ \A j \in 1..calendarJobSeq :
            calendarJobs[j].status # "pending"
                => calendarJobs'[j].status = calendarJobs[j].status ]_vars

\* C20: every batch the provider reports to a query job is appended to the
\* job's events, which never shrink or lose an element, and a poll returns the
\* job's status with exactly the events reported so far and their number
C20_PartialResultsAccumulate ==
    [][ /\ \A j \in 1..calendarJobSeq :
              /\ IsPrefix(calendarJobs[j].events, calendarJobs'[j].events)
              /\ \A count \in 1..2 :
                    OnGetResult(j, count) =>
                        /\ Len(calendarJobs'[j].events)
                               = Len(calendarJobs[j].events) + count
                        /\ SubSeq(calendarJobs'[j].events,
                                  Len(calendarJobs[j].events) + 1,
                                  Len(calendarJobs'[j].events))
                               = SubSeq(Undelivered(calendarJobs[j]), 1, count)
                        /\ calendarJobs'[j].status = calendarJobs[j].status
        /\ \A jobId \in PollIds : \A j \in 1..calendarJobSeq :
              (getCalendarJob(jobId) /\ calendarJobs[j].jobId = jobId) =>
                  /\ response'.status = calendarJobs[j].status
                  /\ response'.events = calendarJobs[j].events
                  /\ response'.count = Len(calendarJobs[j].events) ]_vars

\* a poll between two batches: it returned pending with the one event of the
\* first batch, and the job has since received more
C20_Witness ==
    \E j \in 1..calendarJobSeq :
        /\ calendarJobs[j].kind = "getItems"
        /\ response.kind = "calendarJob" /\ response.jobId = calendarJobs[j].jobId
        /\ response.status = "pending" /\ response.count = 1
        /\ Len(calendarJobs[j].events) = 3
        /\ IsPrefix(response.events, calendarJobs[j].events)

----------------------------------------------------------------------------
(* Properties of add and delete jobs *)

\* C21: createCalendarEvent returns with the id of its job and pending = true
\* while the provider has not answered; the job stays pending, and every poll
\* says so, until the provider completes; from then on a poll of the same id
\* reports done, or error for a non-zero status
C21_PendingUntilProviderCompletes ==
    [][ /\ \A args \in Requests : \A addThrows \in BOOLEAN :
              (createCalendarEvent(args, FALSE, addThrows)
                   /\ calendarJobSeq' = calendarJobSeq + 1) =>
                  /\ response'.kind = "eventCreated"
                  /\ response'.jobId = calendarJobs'[calendarJobSeq'].jobId
                  /\ response'.pending = ~addThrows
                  /\ calendarJobs'[calendarJobSeq'].status
                         = IF addThrows THEN "error" ELSE "pending"
        /\ \A j \in 1..calendarJobSeq :
              (calendarJobs[j].kind = "addItem" /\ calendarJobs[j].status = "pending") =>
                  \/ calendarJobs'[j].status = "pending"
                  \/ \E status \in Statuses :
                        /\ AddItemComplete(j, status)
                        /\ calendarJobs'[j].status
                               = IF status \in {1, 2} THEN "error" ELSE "done"
        /\ \A jobId \in PollIds : \A j \in 1..calendarJobSeq :
              (getCalendarJob(jobId) /\ calendarJobs[j].jobId = jobId) =>
                  /\ response'.kind = "calendarJob"
                  /\ response'.jobId = jobId
                  /\ response'.status = calendarJobs[j].status ]_vars

\* the provider answered with a non-zero status after createCalendarEvent had
\* returned, and the poll of the job reports error
C21_Witness ==
    \E j \in 1..calendarJobSeq :
        /\ calendarJobs[j].kind = "addItem" /\ calendarJobs[j].owner = 0
        /\ calendarJobs[j].itemId # <<>>
        /\ calendarJobs[j].status = "error"
        /\ response.kind = "calendarJob" /\ response.jobId = calendarJobs[j].jobId
        /\ response.status = "error"

\* C27: a completion with status 0 or with no status sets an add or delete
\* job to done, a completion with a non-zero status sets it to error with a
\* message that names the status; an add job records the identifier of the
\* completion as itemId in both cases
C27_CompletionStatus ==
    [][ \A j \in 1..calendarJobSeq : \A status \in Statuses :
          /\ AddItemComplete(j, status) =>
                /\ calendarJobs'[j].itemId = <<"item", j>>
                /\ status \in {NoStatus, 0} =>
                      /\ calendarJobs'[j].status = "done"
                      /\ calendarJobs'[j].error = ""
                /\ status \in {1, 2} =>
                      /\ calendarJobs'[j].status = "error"
                      /\ calendarJobs'[j].error
                             = IF status = 1 THEN "addItem failed with status=1"
                               ELSE "addItem failed with status=2"
          /\ DeleteItemComplete(j, status) =>
                /\ status \in {NoStatus, 0} =>
                      /\ calendarJobs'[j].status = "done"
                      /\ calendarJobs'[j].error = ""
                /\ status \in {1, 2} =>
                      /\ calendarJobs'[j].status = "error"
                      /\ calendarJobs'[j].error
                             = IF status = 1 THEN "deleteItem failed with status=1"
                               ELSE "deleteItem failed with status=2" ]_vars

C27_Witness ==
    /\ \E j \in 1..calendarJobSeq :
          /\ calendarJobs[j].kind = "addItem" /\ calendarJobs[j].status = "error"
          /\ calendarJobs[j].error = "addItem failed with status=2"
          /\ calendarJobs[j].itemId # <<>>
    /\ \E j \in 1..calendarJobSeq :
          calendarJobs[j].kind = "deleteItem" /\ calendarJobs[j].status = "done"
    /\ \E j \in 1..calendarJobSeq :
          /\ calendarJobs[j].kind = "deleteItem"
          /\ calendarJobs[j].error = "deleteItem failed with status=1"

----------------------------------------------------------------------------
(* Properties of the workflows' progress *)

\* C22: when syncAndCreateCalendarEvent or syncAndDeleteEventsBySql answers
\* pending, the workflow with the id of the answer has just been registered
\* with status running, and no sync, query, add or delete has completed for
\* it: nothing but the registration has happened
C22_PendingAnswerBeforeAnyStep ==
    [][ (response'.kind = "pending" /\ response' # response) =>
            /\ workflowSeq' = workflowSeq + 1
            /\ workflowJobs'[workflowSeq'].jobId = response'.workflowJobId
            /\ \A v \in 1..workflowSeq : workflowJobs'[v] = workflowJobs[v]
            /\ workflowJobs'[workflowSeq'].meta.mode \in {"create", "sql+providerDelete"} =>
                  /\ workflowJobs'[workflowSeq'].status = "running"
                  /\ effects'[workflowSeq'] = <<>>
                  /\ pc'[workflowSeq'] \in {"preSync", "open"}
                  /\ calendarJobs' = calendarJobs
                  /\ store' = store ]_vars

\* the answer of syncAndDeleteEventsBySql is the latest response and the
\* connection to the store has not been opened yet
C22_Witness ==
    \E w \in SqlWorkflows :
        /\ response.kind = "pending"
        /\ response.workflowJobId = workflowJobs[w].jobId
        /\ workflowJobs[w].status = "running" /\ pc[w] = "open"

\* C23: every workflow of syncAndCreateCalendarEvent and of
\* syncAndDeleteEventsBySql reaches status done or error, also in the
\* behaviours where the provider never completes an addItem or a deleteItem
C23_WorkflowsTerminate ==
    \A w \in 1..MaxBulkWorkflows :
        (workflowSeq >= w) ~>
            (workflowSeq >= w /\ workflowJobs[w].status \in {"done", "error"})

\* a workflow is done while a delete it dispatched is still pending
C23_Witness ==
    \E w \in SqlWorkflows :
        /\ workflowJobs[w].status = "done"
        /\ \E j \in 1..calendarJobSeq :
              calendarJobs[j].owner = w /\ calendarJobs[j].status = "pending"

\* C24: a syncAndCreateCalendarEvent workflow whose create step started an
\* add job, whose first post-sync was triggered and whose second post-sync
\* failed ends with a record that reports the failure and carries the create
\* result with its job id
C24_FailedSecondPostSyncKeepsCreated ==
    \A w \in CreateWorkflows :
        (/\ pc[w] = "end"
         /\ locals[w].created.kind = "success"
         /\ locals[w].post.kind = "triggered"
         /\ workflowJobs[w].status = "error") =>
            /\ workflowJobs[w].error # ""
            /\ workflowJobs[w].result.kind = "created"
            /\ workflowJobs[w].result.created.jobId = locals[w].created.jobId

\* the values of job.step of a syncAndDeleteEventsBySql workflow, in order
SqlSteps == <<"querySql", "delete", "postSync", "done">>

\* C25: the step of a syncAndDeleteEventsBySql workflow goes through querySql,
\* delete, postSync, done in that order, possibly cut short by error; a delete
\* is dispatched only once the query has returned, and a post-sync is triggered
\* only once every candidate has been dispatched
C25_SqlStepOrder ==
    \A w \in SqlWorkflows :
        LET t == stepTrace[w]
            e == effects[w]
            deletes == Cardinality({i \in 1..Len(e) : e[i] = "deleteItem"})
        IN /\ Len(t) >= 1
           /\ workflowJobs[w].step = t[Len(t)]
           /\ \/ IsPrefix(t, SqlSteps)
              \/ /\ t[Len(t)] = "error"
                 /\ IsPrefix(Front(t), SqlSteps) /\ Len(t) <= 3
           /\ deletes > 0 => (Len(t) >= 2 /\ t[2] = "delete")
           /\ \A i \in 1..Len(e) : e[i] = "sync" =>
                 /\ Len(t) >= 3 /\ t[3] = "postSync"
                 /\ deletes = workflowJobs[w].result.deleteTriggered
                 /\ workflowJobs[w].result.candidateCount
                        = workflowJobs[w].result.deleteTriggered
                              + workflowJobs[w].result.deleteErrors
                 /\ \A k \in 1..Len(e) : e[k] = "deleteItem" => k < i

\* a workflow that is done dispatched two deletes and then triggered a sync
C25_Witness ==
    \E w \in SqlWorkflows :
        /\ stepTrace[w] = SqlSteps
        /\ Len(effects[w]) >= 3
        /\ effects[w][1] = "deleteItem" /\ effects[w][2] = "deleteItem"
        /\ effects[w][Len(effects[w])] = "sync"

----------------------------------------------------------------------------
(* Properties of the fingerprint *)

\* the workflows whose fingerprint is the one a duplicate answer names
SuppressedBy(key) ==
    {w \in CreateWorkflows : workflowJobs[w].meta.idempotencyKey = key}

SameEvent(a, b) ==
    /\ resolveCalendar(a) = resolveCalendar(b)
    /\ a.allDay = b.allDay
    /\ IF a.allDay = "true" THEN a.date = b.date
       ELSE a.start = b.start /\ a.end = b.end
    /\ TagOf(a) = TagOf(b)
    /\ a.title = b.title

\* C29: a request for the calendar, time, tag and title of a request whose
\* entry is still in the cache is answered as a duplicate, however each of the
\* two names the calendar
C29_SameTargetSuppressed ==
    [][ \A a \in KeyRequests :
            (/\ syncAndCreateCalendarEvent(a)
             /\ \E w \in CreateWorkflows :
                   /\ SameEvent(locals[w].request, a)
                   /\ workflowJobs[w].meta.idempotencyKey
                          \in DOMAIN cleanupIdempotency(idempotency, now)) =>
                response'.kind = "alreadyCreated" ]_vars

----------------------------------------------------------------------------
(* Properties of the candidate queries *)

\* the connection accounting of one query: opens and closes of its connection
ClosedOnce(q, ended, holding) ==
    /\ q.closes <= q.opens /\ q.opens <= 1
    /\ ended => q.closes = q.opens
    /\ holding => q.opens = 1 /\ q.closes = 0

\* C26: every connection opened for a candidate query is closed exactly once,
\* whether the query returned or threw: while the query is awaited the one
\* connection is open and not yet closed, after the finally block it has been
\* closed once and is never opened again, and a bulk workflow in a terminal
\* status and a tool call that has returned hold no connection
C26_ConnectionsClosedOnce ==
    /\ \A w \in 1..workflowSeq :
          IsSqlWf(w) =>
             ClosedOnce(locals[w], workflowJobs[w].status \in {"done", "error"},
                        pc[w] \in {"execute", "close"})
    /\ bulk.tool \in QueryTools =>
          /\ ClosedOnce(bulk, bulk.pc = "idle", bulk.pc \in {"execute", "close"})
          /\ bulk.pc \in {"getTarget", "getItem", "deleteItem", "modifyItem"}
                => bulk.closes = 1

\* a tool call and a bulk workflow whose queries threw have both ended, each
\* with its connection closed once
C26_Witness ==
    /\ bulk.tool \in QueryTools /\ bulk.pc = "idle" /\ bulk.failed
    /\ bulk.opens = 1 /\ bulk.closes = 1
    /\ \E w \in 1..workflowSeq :
          /\ IsSqlWf(w) /\ locals[w].failed = "execute"
          /\ workflowJobs[w].status = "error"
          /\ locals[w].opens = 1 /\ locals[w].closes = 1

\* C30: a call of tbsyncDeleteEasEventsNativeBySql that has started
\* eventually returns, even when the provider never completes a call
C30_NativeDeleteReturns == (bulk.pc # "idle") ~> (bulk.pc = "idle")

----------------------------------------------------------------------------
(* Properties of the HTTP server and of the stdio bridge *)

\* C31: the handler finishes every response exactly once, with 405, 400, or
\* 200 and a payload that holds either a result or an error with one message
C31_OneResponsePerRequest ==
    exchange.pc = "done" =>
        /\ exchange.finished = 1
        /\ exchange.status \in {405, 400, 200}
        /\ exchange.status = 200 =>
              \/ exchange.hasResult /\ exchange.errors = <<>>
              \/ ~exchange.hasResult /\ Len(exchange.errors) = 1

\* C38: at most one server is ever started; a call of start() after a
\* successful one answers alreadyStarted with the same port and creates no
\* server; the two flags are never both set; no call leaves starting set, so
\* a call made while the server is not started never answers "starting"
\* or "alreadyStarted": it starts the server or reports its own failure
C38_StartedAtMostOnce ==
    /\ [](/\ server.servers <= 1
          /\ server.started <=> server.servers = 1
          /\ ~(server.started /\ server.starting))
    /\ [][server'.calls > server.calls =>
            /\ ~server'.starting
            /\ server.started =>
                  /\ server'.result.success /\ server'.result.alreadyStarted
                  /\ server'.result.port = server.port
                  /\ server'.servers = server.servers
            /\ ~server.started =>
                  /\ ~server'.result.alreadyStarted /\ ~server'.result.starting
                  /\ server'.started <=> server'.result.success]_vars

\* a start failed, a later one succeeded, and the call after that was answered
\* alreadyStarted
C38_Witness ==
    /\ server.failures > 0 /\ server.started
    /\ server.result.alreadyStarted /\ server.result.port = MCP_PORT

\* the complete lines of the text read so far that are not blank
NonBlankLines(read) ==
    LET parts == Split(read, "\n")
    IN SelectSeq(SubSeq(parts, 1, Len(parts) - 1), LAMBDA l : Trim(l) # <<>>)

\* C39: every non-blank line read from stdin has one reply on stdout or one
\* HTTP call still in flight: a parse error (-32700, no id) for each line that
\* is no JSON, a response or an error (-32000) with the request's id otherwise
C39_OneReplyPerLine ==
    LET lines == NonBlankLines(bridge.read)
        bad == SelectSeq(lines, LAMBDA l : ~JsonParse(Trim(l)).ok)
    IN /\ Len(bridge.stdout) + Len(bridge.inflight) = Len(lines)
       /\ Len(SelectSeq(bridge.stdout, LAMBDA r : r.kind = "parseError")) = Len(bad)
       /\ \A i \in 1..Len(bridge.stdout) :
             bridge.stdout[i].kind = "parseError" =>
                bridge.stdout[i].code = -32700 /\ bridge.stdout[i].id = 0

----------------------------------------------------------------------------
(* Properties of the TbSync-native tools *)

\* C32: a call of the native delete or of the modify tool that reaches its
\* item loop calls tbsyncSyncAccountByUser exactly once, and not before the
\* loop has attempted every candidate
C32_OneSyncAfterChanges ==
    bulk.tool \in {"native", "modify"} =>
        /\ bulk.pc # "idle" => bulk.syncCalls = 0
        /\ bulk.returned /\ response.kind = "queryResult" => bulk.syncCalls = 1

----------------------------------------------------------------------------
(* Properties of tagging and of the create workflow's cache *)

\* C33: the title of every event handed to addItem ends with its tag in
\* parentheses, once, placing the tag again changes nothing, and the tag is
\* the one stored in X-MCP-TAG
C33_TitleEndsWithTagOnce ==
    \A j \in 1..calendarJobSeq :
       calendarJobs[j].kind = "addItem" =>
          LET ev == calendarJobs[j].item
              suffix == <<"(">> \o ev.tag \o <<")">>
          IN /\ EndsWith(ev.title, suffix)
             /\ ~EndsWith(ev.title, suffix \o <<" ">> \o suffix)
             /\ withTagAtEnd(ev.title, ev.tag) = ev.title

\* C34: a request is answered alreadyCreated only when a workflow with the
\* same fingerprint is still running or has called addItem for the event
C34_SuppressedOnlyByLiveOrCreating ==
    [][ \A args \in Requests :
          ( /\ syncAndCreateCalendarEvent(args)
            /\ response'.kind = "alreadyCreated" )
          => \E w \in 1..workflowSeq :
                /\ IsCreateWf(w)
                /\ workflowJobs[w].meta.idempotencyKey = idempotencyKey(ArgsWithTag(args))
                /\ \/ workflowJobs[w].status = "running"
                   \/ \E i \in 1..Len(effects[w]) : effects[w][i] = "addItem" ]_vars

\* C35: the workflow never waits for its add job (its last post-sync can
\* return whatever the job's status), and a completion of the job changes the
\* job record only: not the workflow table, the continuations or the cache
C35_WorkflowIgnoresAddJob ==
    /\ [](\A w \in 1..workflowSeq :
             IsCreateWf(w) /\ pc[w] = "postSync2"
                => ENABLED PostSync2Returns(w, TRUE))
    /\ [][ \A j \in 1..calendarJobSeq :
             ( /\ calendarJobs[j].kind = "addItem"
               /\ calendarJobs[j].status = "pending"
               /\ calendarJobs'[j].status # "pending" )
             => /\ workflowJobs' = workflowJobs
                /\ idempotency' = idempotency
                /\ pc' = pc /\ locals' = locals /\ effects' = effects
                /\ \A i \in 1..calendarJobSeq :
                      i # j => calendarJobs'[i] = calendarJobs[i] ]_vars

\* a workflow is done, both post-syncs triggered, its add job still pending;
\* and a workflow is done whose add job has completed with an error
C35_Witness ==
    /\ \E w \in 1..workflowSeq : \E j \in 1..calendarJobSeq :
          /\ IsCreateWf(w) /\ workflowJobs[w].status = "done"
          /\ calendarJobs[j].owner = w /\ calendarJobs[j].status = "pending"
          /\ effects[w] = <<"sync", "addItem", "sync", "sync">>
    /\ \E w \in 1..workflowSeq : \E j \in 1..calendarJobSeq :
          /\ IsCreateWf(w) /\ workflowJobs[w].status = "done"
          /\ calendarJobs[j].owner = w /\ calendarJobs[j].status = "error"
          /\ calendarJobs[j].error = "addItem failed with status=1"

----------------------------------------------------------------------------
(* Properties of tbsyncSyncAccountByUser *)

\* the accounts whose user is the email, both lower-cased and trimmed
AccountsOf(userEmail) ==
    {i \in 1..Len(AccountIDs) :
        Trim(ToLowerCase(AccountUser(AccountIDs[i]))) = Trim(ToLowerCase(userEmail))}

\* C36: a call of the tool triggers a sync exactly when one account has the
\* given user, and then for that account; with no account or several it
\* returns an error and triggers nothing
C36_SyncIffOneAccount ==
    [][ bulk'.syncToolCalls > bulk.syncToolCalls /\ ~response'.thrown =>
          LET found == AccountsOf(response'.userEmail)
          IN /\ response'.triggered <=> Cardinality(found) = 1
             /\ bulk'.triggers = bulk.triggers + (IF Cardinality(found) = 1 THEN 1 ELSE 0)
             /\ response'.triggered =>
                   /\ response'.error = ""
                   /\ \A i \in found : response'.accountID = AccountIDs[i]
             /\ ~response'.triggered =>
                   /\ response'.error # "" /\ response'.accountID = "" ]_vars

\* the tool was called with the email of two accounts and triggered nothing,
\* after a call with a differently written email of one account had triggered
C36_Witness ==
    /\ response.kind = "sync" /\ response.userEmail = <<"u2">>
    /\ ~response.triggered /\ response.error = "Multiple TbSync accounts found"
    /\ bulk.triggers > 0

----------------------------------------------------------------------------
(* Properties of the counters of tbsyncDeleteEasEventsNativeBySql *)

Tally(b) == b.deleted + b.notFound + b.errors

\* C37: once the folder's target has resolved, every candidate the loop has
\* passed is counted once, in deleted, notFound or errors: each step of the
\* loop adds one to one counter, the counters returned add up to the number
\* of candidates, and a candidate whose lookup timed out is counted notFound
\* and deleteItem is never called for it
C37_EachCandidateCountedOnce ==
    /\ [](bulk.tool = "native" =>
            /\ bulk.pc \in {"getItem", "deleteItem"} => Tally(bulk) = bulk.idx - 1
            /\ \A id \in bulk.timedOut :
                  /\ id \in store
                  /\ \A i \in 1..Len(bulk.attempted) : bulk.attempted[i] # id
            /\ Cardinality(bulk.timedOut) <= bulk.notFound)
    /\ [][ bulk.tool = "native" /\ bulk.pc \in {"getItem", "deleteItem"}
              /\ (bulk'.pc = "idle" \/ bulk'.idx = bulk.idx + 1) =>
                /\ Tally(bulk') = Tally(bulk) + 1
                /\ bulk'.deleted >= bulk.deleted /\ bulk'.notFound >= bulk.notFound
                /\ bulk'.errors >= bulk.errors
                /\ bulk'.pc = "idle" =>
                      /\ Tally(bulk') = Len(bulk.items)
                      /\ response'.candidateCount = Len(bulk.items)
                      /\ response'.deleted = bulk'.deleted
                      /\ response'.notFound = bulk'.notFound ]_vars

\* a call has returned with one candidate deleted, one whose lookup timed out
\* and one whose deleteItem threw
C37_Witness ==
    /\ bulk.tool = "native" /\ bulk.returned /\ response.kind = "queryResult"
    /\ bulk.timedOut # {} /\ bulk.deleted = 1 /\ bulk.notFound = 1 /\ bulk.errors = 1
    /\ Len(bulk.items) = 3

====
